---- MODULE Spec2Model ----
(***************************************************************************)
(* auth-kit: token codec, signer, issuer, validator, cookie store and the  *)
(* refresh middleware (src/unnamed/part_003, src/src/auth/cookies.ts,      *)
(* src/src/auth/index.ts), the password/signature comparison helper        *)
(* (src/src/util/hash.ts) and the account repository                       *)
(* (src/src/db/connector.ts).                                              *)
(*                                                                         *)
(* Strings are modelled at character level on a scaled-down alphabet:      *)
(*   - a JSON text is a sequence of 4-bit "bytes" (0..15); 15 is a byte    *)
(*     that breaks the JSON syntax;                                        *)
(*   - base64url maps 3 bytes (12 bits) to 4 characters of 3 bits each,    *)
(*     exactly as the real encoding maps 3 octets to 4 sextets, without    *)
(*     padding characters; the decoder drops the trailing bits;            *)
(*   - a character is its index 0..7 in the alphabet                       *)
(*     "A" "Q" "c" "g" "3" "w" "-" "_" , of which "A" "c" "3" are          *)
(*     hexadecimal digits and the others are not;                          *)
(*   - a token string is the sequence of its dot-separated segments.       *)
(***************************************************************************)
EXTENDS Integers, Sequences, FiniteSets, TLC

(***************************************************************************)
(* Bounds of the model.                                                    *)
(***************************************************************************)
MaxTime == 3
MaxVer == 1
MaxCmpLen == 2
MaxPieces == 6
MaxTimeLen == 3
MaxRequests == 10
MaxOrgs == 2

Users == {1}
Reqs == {1, 2}

(***************************************************************************)
(* Character level: alphabet, hex digits, base64url.                       *)
(***************************************************************************)
Chars == 0..7
Bytes == 0..15
BadByte == 15

\* value of a character as a hexadecimal digit, -1 when it is none
\* ("A" -> 10, "c" -> 12, "3" -> 3)
HexVal(c) == CASE c = 0 -> 10 [] c = 2 -> 12 [] c = 4 -> 3 [] OTHER -> -1

RECURSIVE HexDecodeFrom(_, _)
\* Buffer.from(s, "hex"): decodes pairs of hex digits, stops at the first
\* pair that is not two hex digits, ignores an odd trailing character
HexDecodeFrom(s, i) ==
  IF 2 * i > Len(s) \/ i < 1 THEN <<>>
  ELSE IF HexVal(s[2 * i - 1]) < 0 \/ HexVal(s[2 * i]) < 0 THEN <<>>
  ELSE <<16 * HexVal(s[2 * i - 1]) + HexVal(s[2 * i])>> \o HexDecodeFrom(s, i + 1)

BufferFromHex(s) == HexDecodeFrom(s, 1)

\* crypto.timingSafeEqual: RangeError when the byte lengths differ
timingSafeEqual(x, y) ==
  IF Len(x) # Len(y) THEN "throw"
  ELSE IF x = y THEN "true" ELSE "false"

\* src/src/util/hash.ts timingSafeCompare: "true", "false" or "throw"
timingSafeCompare(a, b) ==
  IF Len(a) # Len(b) THEN "false"
  ELSE timingSafeEqual(BufferFromHex(a), BufferFromHex(b))

ByteBits(b) == <<b \div 8, (b \div 4) % 2, (b \div 2) % 2, b % 2>>

RECURSIVE BitsOfBytes(_)
BitsOfBytes(bs) ==
  IF bs = <<>> THEN <<>> ELSE ByteBits(Head(bs)) \o BitsOfBytes(Tail(bs))

CharBits(c) == <<c \div 4, (c \div 2) % 2, c % 2>>

RECURSIVE BitsOfChars(_)
BitsOfChars(cs) ==
  IF cs = <<>> THEN <<>> ELSE CharBits(Head(cs)) \o BitsOfChars(Tail(cs))

RECURSIVE CharsOfBits(_)
\* groups of 3 bits, the last group zero-filled
CharsOfBits(bits) ==
  IF bits = <<>> THEN <<>>
  ELSE IF Len(bits) = 1 THEN <<4 * bits[1]>>
  ELSE IF Len(bits) = 2 THEN <<4 * bits[1] + 2 * bits[2]>>
  ELSE <<4 * bits[1] + 2 * bits[2] + bits[3]>> \o CharsOfBits(SubSeq(bits, 4, Len(bits)))

RECURSIVE BytesOfBits(_)
\* groups of 4 bits, an incomplete last group is dropped
BytesOfBits(bits) ==
  IF Len(bits) < 4 THEN <<>>
  ELSE <<8 * bits[1] + 4 * bits[2] + 2 * bits[3] + bits[4]>>
         \o BytesOfBits(SubSeq(bits, 5, Len(bits)))

\* Buffer.from(str, "utf-8").toString("base64url")
base64UrlEncode(bytes) == CharsOfBits(BitsOfBytes(bytes))

\* Buffer.from(str, "base64url").toString("utf-8")
base64UrlDecode(chars) == BytesOfBits(BitsOfChars(chars))

(***************************************************************************)
(* Configuration (jwtConfig of config/config.json, fixed for a run).       *)
(* A TTL string is the sequence of its characters.                         *)
(***************************************************************************)
Secret == 5
IssByte == 3
HeaderByte == 6
TypeAccess == 1
TypeRefresh == 2
NoVer == -1
\* a user snapshot: createdAt is a Date object in the server ("Date") and
\* the text of its toISOString() once it has been through JSON ("string")
NoUser == [id |-> 0, emailVerified |-> FALSE, createdAt |-> "none"]

DigitVal(ch) ==
  CASE ch = "0" -> 0 [] ch = "1" -> 1 [] ch = "2" -> 2 [] ch = "3" -> 3
    [] ch = "4" -> 4 [] ch = "5" -> 5 [] ch = "6" -> 6 [] ch = "7" -> 7
    [] ch = "8" -> 8 [] ch = "9" -> 9 [] OTHER -> -1

RECURSIVE parseInt(_)
\* parseInt(digits, 10) of a non-empty all-digit string
parseInt(ds) ==
  IF ds = <<>> THEN 0
  ELSE 10 * parseInt(SubSeq(ds, 1, Len(ds) - 1)) + DigitVal(ds[Len(ds)])

TimeFormatOK_unanchored(time) ==
  /\ Len(time) >= 2
  /\ DigitVal(time[Len(time) - 1]) >= 0
  /\ time[Len(time)] \in {"s", "m", "h", "d"}

\* the regular expression /^(\d+)([smhd])$/ of parseTimeToSeconds
TimeFormatOK(time) ==
  /\ Len(time) >= 2
  /\ \A i \in 1..(Len(time) - 1) : DigitVal(time[i]) >= 0
  /\ time[Len(time)] \in {"s", "m", "h", "d"}

\* parseTimeToSeconds of a string that matches the format
\* (a string that does not match makes it throw INVALID_TIME_FORMAT)
parseTimeToSeconds(time) ==
  LET value == parseInt(SubSeq(time, 1, Len(time) - 1))
      unit == time[Len(time)]
  IN CASE unit = "s" -> value
       [] unit = "m" -> value * 60
       [] unit = "h" -> value * 60 * 60
       [] unit = "d" -> value * 60 * 60 * 24

(***************************************************************************)
(* JSON of a header and of a payload, one byte per member:                 *)
(*   header  <<alg/typ>>                                                   *)
(*   payload <<iss, sub, exp, iat, nbf, type, user, ver>>                  *)
(* type 1 is "access", 2 is "refresh"; user 0 and ver 0 are a member that  *)
(* JSON.stringify leaves out (undefined).  JSON.stringify writes a Date    *)
(* as the string of its toJSON(), and JSON.parse returns that string.      *)
(***************************************************************************)
UserByte(user) ==
  IF user.id = 0 THEN 0 ELSE 2 * user.id - 1 + (IF user.emailVerified THEN 1 ELSE 0)

UserOfByte(b) ==
  IF b = 0 THEN NoUser
  ELSE [id |-> (b + 1) \div 2, emailVerified |-> ((b + 1) % 2 = 1),
        createdAt |-> "string"]

JSONstringifyHeader(header) == <<header.alg>>

JSONstringifyPayload(payload) ==
  << payload.iss, payload.sub, payload.exp, payload.iat, payload.nbf,
     payload.type, UserByte(payload.user),
     IF payload.ver = NoVer THEN 0 ELSE payload.ver + 1 >>

\* JSON.parse throws on a text that is cut short, has trailing bytes or
\* holds a byte that is not JSON
JSONparseOK(bytes, n) ==
  /\ Len(bytes) = n
  /\ \A i \in 1..Len(bytes) : bytes[i] # BadByte

JSONparseHeader(bytes) == [alg |-> bytes[1]]

JSONparsePayload(bytes) ==
  [ iss |-> bytes[1], sub |-> bytes[2], exp |-> bytes[3], iat |-> bytes[4],
    nbf |-> bytes[5], type |-> bytes[6], user |-> UserOfByte(bytes[7]),
    ver |-> IF bytes[8] = 0 THEN NoVer ELSE bytes[8] - 1 ]

(***************************************************************************)
(* TokenCodec                                                              *)
(***************************************************************************)
\* JWTtoString: `${headerBase64}.${payloadBase64}.${jwt.signature}`
JWTtoString(jwt) ==
  << base64UrlEncode(JSONstringifyHeader(jwt.header)),
     base64UrlEncode(JSONstringifyPayload(jwt.payload)),
     jwt.signature >>

\* the character "."
Dot == 8

RECURSIVE splitAt(_, _)
\* String.prototype.split(sep): the segments between the sep characters
splitAt(str, sep) ==
  IF \A i \in 1..Len(str) : str[i] # sep THEN <<str>>
  ELSE LET i == CHOOSE k \in 1..Len(str) :
                  str[k] = sep /\ \A j \in 1..(k - 1) : str[j] # sep
       IN <<SubSeq(str, 1, i - 1)>> \o splitAt(SubSeq(str, i + 1, Len(str)), sep)

\* jwt.split(".")
split(str) == splitAt(str, Dot)

NoJWT ==
  [ header |-> [alg |-> 0],
    payload |-> [iss |-> 0, sub |-> 0, exp |-> 0, iat |-> 0, nbf |-> 0,
                 type |-> 0, user |-> NoUser, ver |-> NoVer],
    signature |-> <<>> ]

\* stringToJWT: err is "none" when a token is returned, otherwise the code
\* of the AuthKitError that is thrown
stringToJWT_atLeast3(parts) ==
  IF Len(parts) < 3 THEN [err |-> "INVALID_JWT_FORMAT", jwt |-> NoJWT]
  ELSE LET hb == base64UrlDecode(parts[1])
           pb == base64UrlDecode(parts[2])
       IN IF ~JSONparseOK(hb, 1) \/ ~JSONparseOK(pb, 8)
          THEN [err |-> "JWT_PARSE_ERROR", jwt |-> NoJWT]
          ELSE [err |-> "none",
                jwt |-> [ header |-> JSONparseHeader(hb),
                          payload |-> JSONparsePayload(pb),
                          signature |-> parts[3] ]]

stringToJWT(parts) ==
  IF Len(parts) # 3 THEN [err |-> "INVALID_JWT_FORMAT", jwt |-> NoJWT]
  ELSE LET hb == base64UrlDecode(parts[1])
           pb == base64UrlDecode(parts[2])
       IN IF ~JSONparseOK(hb, 1) \/ ~JSONparseOK(pb, 8)
          THEN [err |-> "JWT_PARSE_ERROR", jwt |-> NoJWT]
          ELSE [err |-> "none",
                jwt |-> [ header |-> JSONparseHeader(hb),
                          payload |-> JSONparsePayload(pb),
                          signature |-> parts[3] ]]

(***************************************************************************)
(* TokenSigner.  HMAC-SHA256 is a keyed function that is one-to-one on     *)
(* the texts of the model: a substitution box chained from the last        *)
(* character of the text to the first, so that every character of the      *)
(* digest depends on the key and on the rest of the text.                  *)
(***************************************************************************)
SBox == <<3, 6, 0, 5, 7, 1, 4, 2>>

RECURSIVE HmacChain(_, _)
HmacChain(secret, data) ==
  IF data = <<>> THEN <<>>
  ELSE LET rest == HmacChain(secret, Tail(data))
           carry == IF rest = <<>> THEN 0 ELSE Head(rest)
       IN <<SBox[((Head(data) + carry + secret) % 8) + 1]>> \o rest

\* crypto.createHmac("sha256", secret).update(data).digest("base64url")
createHmacDigest(secret, data) == HmacChain(secret, data)

createHeader == [alg |-> HeaderByte]

createSignature(header, payload) ==
  LET headerBase64 == base64UrlEncode(JSONstringifyHeader(header))
      payloadBase64 == base64UrlEncode(JSONstringifyPayload(payload))
  IN createHmacDigest(Secret, headerBase64 \o payloadBase64)

(***************************************************************************)
(* TokenIssuer.  t is Math.floor(Date.now() / 1000); the caller has made   *)
(* sure that the TTL string parses (otherwise the function throws).        *)
(***************************************************************************)
createPayload(cfg, user, ver, t) ==
  [ iss |-> IssByte, sub |-> user.id,
    exp |-> t + parseTimeToSeconds(cfg.expiresIn),
    iat |-> t, nbf |-> t, type |-> TypeAccess, user |-> user, ver |-> ver ]

createRefreshPayload(cfg, userId, ver, t) ==
  [ iss |-> IssByte, sub |-> userId,
    exp |-> t + parseTimeToSeconds(cfg.refreshExpiresIn),
    iat |-> t, nbf |-> t, type |-> TypeRefresh, user |-> NoUser, ver |-> ver ]

createSignedJWT(cfg, user, ver, t) ==
  LET header == createHeader
      payload == createPayload(cfg, user, ver, t)
  IN [header |-> header, payload |-> payload,
      signature |-> createSignature(header, payload)]

createRefreshToken(cfg, userId, ver, t) ==
  LET header == createHeader
      payload == createRefreshPayload(cfg, userId, ver, t)
  IN [header |-> header, payload |-> payload,
      signature |-> createSignature(header, payload)]

(***************************************************************************)
(* TokenValidator.  Results are "true", "false" or "throw".                *)
(***************************************************************************)
validateJWT(jwt, t) ==
  LET expectedSignature == createSignature(jwt.header, jwt.payload)
      matchingSignature == timingSafeCompare(expectedSignature, jwt.signature)
      exp == jwt.payload.exp
      nbf == jwt.payload.nbf
  IN IF matchingSignature = "throw" THEN "throw"
     ELSE IF matchingSignature = "false" THEN "false"
     ELSE IF exp # 0 /\ t >= exp THEN "false"
     ELSE IF nbf # 0 /\ t < nbf THEN "false"
     ELSE "true"

validateAccessToken_anyKind(jwt, t) == validateJWT(jwt, t)

validateAccessToken(jwt, t) ==
  IF validateJWT(jwt, t) # "true" THEN validateJWT(jwt, t)
  ELSE IF jwt.payload.type = TypeAccess THEN "true" ELSE "false"

validateRefreshToken_wrongKind(jwt, t) ==
  IF validateJWT(jwt, t) # "true" THEN validateJWT(jwt, t)
  ELSE IF jwt.payload.type = TypeAccess THEN "true" ELSE "false"

validateRefreshToken(jwt, t) ==
  IF validateJWT(jwt, t) # "true" THEN validateJWT(jwt, t)
  ELSE IF jwt.payload.type = TypeRefresh THEN "true" ELSE "false"

\* validateAccessToken / validateRefreshToken called with a string
validateAccessTokenString(str, t) ==
  IF stringToJWT(str).err # "none" THEN "throw"
  ELSE validateAccessToken(stringToJWT(str).jwt, t)

validateRefreshTokenString(str, t) ==
  IF stringToJWT(str).err # "none" THEN "throw"
  ELSE validateRefreshToken(stringToJWT(str).jwt, t)

(***************************************************************************)
(* SessionCookieStore.  A cookie is a token string; <<>> is an absent (or  *)
(* empty) cookie.  The result has valid in {"true", "false", "throw"}.     *)
(***************************************************************************)
NoCookie == <<>>

validateJWTCookie(token, t) ==
  IF token = NoCookie THEN [valid |-> "false", jwt |-> NoJWT, userId |-> 0]
  ELSE LET d == stringToJWT(token)
       IN IF d.err # "none" THEN [valid |-> "throw", jwt |-> NoJWT, userId |-> 0]
          ELSE IF validateAccessToken(d.jwt, t) # "true"
               THEN [valid |-> validateAccessToken(d.jwt, t), jwt |-> NoJWT, userId |-> 0]
               ELSE [valid |-> "true", jwt |-> d.jwt, userId |-> d.jwt.payload.sub]

validateRefreshTokenCookie(token, t) ==
  IF token = NoCookie THEN [valid |-> "false", jwt |-> NoJWT, userId |-> 0]
  ELSE LET d == stringToJWT(token)
       IN IF d.err # "none" THEN [valid |-> "throw", jwt |-> NoJWT, userId |-> 0]
          ELSE IF validateRefreshToken(d.jwt, t) # "true"
               THEN [valid |-> validateRefreshToken(d.jwt, t), jwt |-> NoJWT, userId |-> 0]
               ELSE [valid |-> "true", jwt |-> d.jwt, userId |-> d.jwt.payload.sub]

(***************************************************************************)
(* State.                                                                  *)
(*   now        the clock, Math.floor(Date.now() / 1000)                   *)
(*   jwtConfig  expiresIn / refreshExpiresIn of the loaded configuration   *)
(*   accounts   the rows of TAccounts, by accId; the e-mail address of     *)
(*              row u is the address of client u                           *)
(*   jar        the cookies each client holds, with the account version    *)
(*              that was current when the pair was issued (issuedVer)      *)
(*   reqs       the requests that are inside jwtMiddleware                 *)
(*   checkedOut the connections taken from the pool and not yet released   *)
(*   verUpdateTried  history: updateAccount has been called for an existing *)
(*              row with an accJWTversion other than the row's             *)
(*   cmpA, cmpB, cmpRes   the last call of timingSafeCompare               *)
(*   tamperOrig, tampered an issued token string and an altered copy       *)
(*   tamperJwt  the token object that tamperOrig is the string of          *)
(*   tamperKind the segment that was altered: "payload" or "signature"     *)
(*   schemaPc   the position of the call of schemaExists made at startup   *)
(*   signupReq  a POST /signup request, step by step                       *)
(*   decIn, decOut  a string, with its "." characters, and the result of   *)
(*              stringToJWT on it; decN counts the pieces of the string    *)
(*   passwordSaltLength  the configured salt length, NotLoaded before the  *)
(*              first getConfig()                                          *)
(*   pw         a stored credential: the string, the password it was made  *)
(*              from, its format and what was done to it afterwards        *)
(*   pwRes      the outcome of the last verifyPassword / dummyHashVerify   *)
(*   cookieCfg  the cookie options of the loaded configuration, with the   *)
(*              jwtConfig of config.json they were loaded from             *)
(*   setCookies the attributes of the two cookies of the last response     *)
(*   timeArg    the argument handed to parseTimeToSeconds, a string or a    *)
(*              number, and timeRes what the call made of it               *)
(*   svc        the last token AuthService.generateAuthResult returned,     *)
(*              with the payload it was made from                          *)
(*   orgReq     a POST /org/create request, step by step, with the rows    *)
(*              its transaction has written and not yet committed          *)
(*   orgTables  the committed rows of TOrganizations, TOrgMemberships and  *)
(*              TGroupMemberships, whether the global 'Owner' group        *)
(*              exists, and the last auto-increment id of TOrganizations   *)
(*   pool       `let pool` of getConnection's module: the pool it holds    *)
(*              (0 is null) and how many pools were ever created           *)
(*   pgPool     the same for `let pool` of the connector (initDB)          *)
(*   calls      the calls of getConnection in progress, by caller          *)
(*   flight     the requests to GET /me that are in flight, counted by     *)
(*              the await they are at, and those started and completed     *)
(***************************************************************************)
VARIABLES now, jwtConfig, accounts, jar, reqs, checkedOut, verUpdateTried,
          cmpA, cmpB, cmpRes, tamperOrig, tampered, tamperJwt, tamperKind,
          schemaPc, signupReq, decIn, decOut, decN,
          passwordSaltLength, pw, pwRes, cookieCfg, setCookies, svc, flight,
          timeArg, timeRes, orgReq, orgTables, pool, pgPool, calls

sysVars == <<now, jwtConfig, accounts, jar, reqs, checkedOut, verUpdateTried>>
cmpVars == <<cmpA, cmpB, cmpRes>>
tamperVars == <<tamperOrig, tampered, tamperJwt, tamperKind>>
poolVars == <<schemaPc, signupReq>>
codecVars == <<decIn, decOut, decN>>
pwVars == <<passwordSaltLength, pw, pwRes>>
ckVars == <<cookieCfg, setCookies>>
timeVars == <<timeArg, timeRes>>
orgVars == <<orgReq, orgTables>>
lazyVars == <<pool, pgPool, calls>>
rest == <<now, jwtConfig, accounts, jar, reqs, verUpdateTried, cmpVars, tamperVars,
         poolVars, codecVars, pwVars, ckVars, svc, flight, timeVars>>
notFlight == <<now, jwtConfig, accounts, jar, reqs, verUpdateTried, cmpVars,
              tamperVars, poolVars, codecVars, pwVars, ckVars, svc, timeVars, orgVars, lazyVars>>
auxVars == <<poolVars, codecVars, pwVars, ckVars, svc, flight, timeVars, orgVars, lazyVars>>
notPool == <<cmpVars, tamperVars, codecVars, pwVars, ckVars, svc, flight, timeVars, orgVars, lazyVars>>
notCodec == <<sysVars, cmpVars, tamperVars, poolVars, pwVars, ckVars, svc, flight, timeVars, orgVars, lazyVars>>
notPw == <<sysVars, cmpVars, tamperVars, poolVars, codecVars, ckVars, svc, flight, timeVars, orgVars, lazyVars>>
notCk == <<sysVars, cmpVars, tamperVars, poolVars, codecVars, pwVars, svc, flight, timeVars, orgVars, lazyVars>>
vars == <<now, jwtConfig, accounts, jar, reqs, checkedOut, verUpdateTried,
          cmpA, cmpB, cmpRes, tamperOrig, tampered, tamperJwt, tamperKind,
          schemaPc, signupReq, decIn, decOut, decN,
          passwordSaltLength, pw, pwRes, cookieCfg, setCookies, svc, flight,
          timeArg, timeRes, orgReq, orgTables, pool, pgPool, calls>>

connectionLimit == 10
\* config.enforceVerifiedEmail ??= true, for a config.json that leaves it out
enforceVerifiedEmail == TRUE
Passwords == {"p", "q"}
Statuses == {"active", "suspended"}

\* TTL strings of the configurations explored; "1x" does not parse
AccessTTLs == { <<"0", "s">>, <<"1", "s">>, <<"1", "x">> }
RefreshTTLs == { <<"2", "s">>, <<"x">> }

NoAccount == [exists |-> FALSE, status |-> "active", ver |-> 0, pw |-> "p",
              emailVerified |-> FALSE]
NoPair == [access |-> NoCookie, refresh |-> NoCookie, issuedVer |-> 0]
IdleReq ==
  [ pc |-> "idle", client |-> 0, access |-> NoCookie, refresh |-> NoCookie,
    t0 |-> 0, userId |-> 0, refreshed |-> FALSE, lookup |-> "none",
    newAccess |-> NoCookie, newRefresh |-> NoCookie, issuedVer |-> 0,
    status |-> 0, handlerRan |-> FALSE ]
\* cookie options that are not there (undefined)
Absent ==
  [ defined |-> FALSE, httpOnly |-> FALSE, secure |-> FALSE, sameSite |-> "",
    maxAge |-> 0, path |-> "" ]
NoCookieConfig ==
  [ loaded |-> FALSE, file |-> [cookieOptions |-> Absent, refreshCookieOptions |-> Absent],
    cookieOptions |-> Absent, refreshCookieOptions |-> Absent ]
NoSetCookies == [written |-> FALSE, access |-> Absent, refresh |-> Absent]
NothingWritten == [organization |-> FALSE, membership |-> FALSE, owner |-> FALSE]
IdleOrg ==
  [ pc |-> "idle", userId |-> 0, orgId |-> 0, written |-> NothingWritten,
    transaction |-> "none", status |-> 0 ]
Callers == {1, 2, 3}
IdleCall == [pc |-> "idle", pool |-> 0, error |-> "none"]
NoTimeResult == [called |-> FALSE, throws |-> FALSE, value |-> 0]
NoAuthResult == [accessToken |-> <<>>, payload |-> NoJWT.payload]
NoFlight ==
  [ started |-> 0, mwGetConnection |-> 0, mwQuery |-> 0,
    meGetConnection |-> [access |-> 0, refresh |-> 0],
    meQuery |-> [access |-> 0, refresh |-> 0],
    mwFinally |-> 0, completed |-> 0 ]
\* let config: AuthKitConfig | null = null
NotLoaded == -1
NoCredential == [stored |-> <<>>, owner |-> <<>>, form |-> "none", damage |-> "none"]
NoPwRes == [kind |-> "none", tried |-> <<>>, res |-> "none"]
NotCalled == [err |-> "not called", jwt |-> NoJWT]
IdleSignup == [pc |-> "idle", client |-> 0, status |-> 0, transaction |-> "none"]

\* a value of config.json that is not a string (a number, say)
NotAString == <<"#number">>

\* the jwtConfig objects that config.json may hold
JWTConfigCandidates ==
  [ expiresIn : AccessTTLs \cup {NotAString},
    refreshExpiresIn : RefreshTTLs \cup {NotAString} ]

\* typeof jwt.expiresIn !== "string" is the only check of expiresIn
validateJWTConfigRequired(jwt) == jwt.expiresIn # NotAString

\* typeof jwt.refreshExpiresIn !== "string" is the only check of it
validateJWTConfigOptional(jwt) == jwt.refreshExpiresIn # NotAString

validateJWTConfig(jwt) ==
  validateJWTConfigRequired(jwt) /\ validateJWTConfigOptional(jwt)

Init ==
  /\ now = 1
  /\ jwtConfig \in {jwt \in JWTConfigCandidates : validateJWTConfig(jwt)}
  /\ accounts = [u \in Users |-> NoAccount]
  /\ jar = [u \in Users |-> NoPair]
  /\ reqs = [r \in Reqs |-> IdleReq]
  /\ checkedOut = 0
  /\ verUpdateTried = FALSE
  /\ cmpA = <<>> /\ cmpB = <<>> /\ cmpRes = "none"
  /\ tamperOrig = NoCookie /\ tampered = NoCookie
  /\ tamperJwt = NoJWT /\ tamperKind = "none"
  /\ schemaPc = "idle"
  /\ signupReq = IdleSignup
  /\ decIn = <<>> /\ decOut = NotCalled /\ decN = 0
  /\ passwordSaltLength = NotLoaded /\ pw = NoCredential /\ pwRes = NoPwRes
  /\ cookieCfg = NoCookieConfig /\ setCookies = NoSetCookies
  /\ svc = NoAuthResult
  /\ orgReq = IdleOrg
  /\ orgTables = [ TOrganizations |-> {}, TOrgMemberships |-> {},
                   TGroupMemberships |-> {}, ownerGroup |-> FALSE, insertId |-> 0 ]
  /\ pool = [current |-> 0, created |-> 0]
  /\ pgPool = [current |-> 0, created |-> 0]
  /\ calls = [c \in Callers |-> IdleCall]
  /\ timeArg = [type |-> "string", text |-> <<>>, value |-> 0]
  /\ timeRes = NoTimeResult
  /\ flight = NoFlight

(***************************************************************************)
(* Issuing a pair (the three lines createSignedJWT / createRefreshToken /  *)
(* setTokenPair that signup, login, POST /refresh and the middleware       *)
(* share).  No caller passes a version: ver is undefined in every token.   *)
(***************************************************************************)
IssueThrows(cfg) == ~TimeFormatOK(cfg.expiresIn) \/ ~TimeFormatOK(cfg.refreshExpiresIn)

UserOfRow(id, row) ==
  [id |-> id, emailVerified |-> row.emailVerified, createdAt |-> "Date"]

IssuePair_accessOnly(cfg, id, row, t) ==
  [ access |-> JWTtoString(createSignedJWT(cfg, UserOfRow(id, row), NoVer, t)),
    refresh |-> NoCookie,
    issuedVer |-> row.ver ]

IssuePair(cfg, id, row, t) ==
  [ access |-> JWTtoString(createSignedJWT(cfg, UserOfRow(id, row), NoVer, t)),
    refresh |-> JWTtoString(createRefreshToken(cfg, id, NoVer, t)),
    issuedVer |-> row.ver ]

\* "... where accId = ? and accStatus = 'active'"
ActiveRow(accs, id) == id \in DOMAIN accs /\ accs[id].exists /\ accs[id].status = "active"

Tick ==
  /\ now < MaxTime
  /\ now' = now + 1
  /\ UNCHANGED <<jwtConfig, accounts, jar, reqs, checkedOut, verUpdateTried, cmpVars, tamperVars, auxVars>>

(***************************************************************************)
(* Route handlers of src/src/auth/index.ts.  Each handler is a function    *)
(* of the state and the request: the status of its response, the row it    *)
(* leaves in TAccounts and the cookies the client holds afterwards.        *)
(***************************************************************************)
NewRow(password) ==
  [exists |-> TRUE, status |-> "active", ver |-> 0, pw |-> password,
   emailVerified |-> FALSE]

\* POST /signup
SignupResult(u, password) ==
  IF accounts[u].exists
  THEN [status |-> 400, row |-> accounts[u], pair |-> jar[u]]
  ELSE IF IssueThrows(jwtConfig)
  THEN [status |-> 500, row |-> NewRow(password), pair |-> jar[u]]
  ELSE [status |-> 201, row |-> NewRow(password),
        pair |-> IssuePair(jwtConfig, u, NewRow(password), now)]

Signup(u, password) ==
  /\ accounts' = [accounts EXCEPT ![u] = SignupResult(u, password).row]
  /\ jar' = [jar EXCEPT ![u] = SignupResult(u, password).pair]
  /\ UNCHANGED <<now, jwtConfig, reqs, checkedOut, verUpdateTried, cmpVars, tamperVars, auxVars>>

\* verifyPassword(accPasswordHash, password) of /login, for the stored hash of
\* pw under passwordSaltLength 32 (the hash itself is modelled further down)
passwordMatches(stored, password) == stored = password

\* POST /login
LoginResult(u, password) ==
  IF ~ActiveRow(accounts, u) THEN [status |-> 401, pair |-> jar[u]]
  ELSE IF ~passwordMatches(accounts[u].pw, password) THEN [status |-> 401, pair |-> jar[u]]
  ELSE IF IssueThrows(jwtConfig) THEN [status |-> 500, pair |-> jar[u]]
  ELSE [status |-> 200, pair |-> IssuePair(jwtConfig, u, accounts[u], now)]

Login(u, password) ==
  /\ jar' = [jar EXCEPT ![u] = LoginResult(u, password).pair]
  /\ UNCHANGED <<now, jwtConfig, accounts, reqs, checkedOut, verUpdateTried, cmpVars, tamperVars, auxVars>>

\* cookies a client may send instead of the ones it holds: one that is
\* not a token, and its token with another signature ("QQ...Q")
Malformed == << <<1>> >>
ForgeSig(c) == IF c = NoCookie THEN NoCookie ELSE <<c[1], c[2], [i \in 1..Len(c[3]) |-> 1]>>

\* the refresh cookie of a POST /refresh
RefreshChoices(j) == {NoCookie, Malformed, j.refresh, j.access, ForgeSig(j.refresh)}

\* the <<access, refresh>> cookies of a request to a protected route
CookiePairs(j) ==
  { <<j.access, j.refresh>>, <<NoCookie, NoCookie>>, <<NoCookie, j.refresh>>,
    <<Malformed, j.refresh>>, <<NoCookie, Malformed>>, <<j.refresh, j.access>>,
    <<ForgeSig(j.access), NoCookie>>, <<NoCookie, ForgeSig(j.refresh)>>,
    <<j.access, NoCookie>>, <<j.access, Malformed>> }

\* POST /refresh
RefreshResult(u, rc) ==
  LET refreshValidation == validateRefreshTokenCookie(rc, now)
      id == refreshValidation.userId
  IN IF refreshValidation.valid = "throw" THEN [status |-> 500, pair |-> jar[u]]
     ELSE IF refreshValidation.valid = "false" THEN [status |-> 401, pair |-> jar[u]]
     ELSE IF ~ActiveRow(accounts, id) THEN [status |-> 404, pair |-> jar[u]]
     ELSE IF IssueThrows(jwtConfig) THEN [status |-> 500, pair |-> jar[u]]
     ELSE [status |-> 200, pair |-> IssuePair(jwtConfig, id, accounts[id], now)]

Refresh(u, rc) ==
  /\ jar' = [jar EXCEPT ![u] = RefreshResult(u, rc).pair]
  /\ UNCHANGED <<now, jwtConfig, accounts, reqs, checkedOut, verUpdateTried, cmpVars, tamperVars, auxVars>>

\* POST /logout: clearTokenPair
Logout(u) ==
  /\ jar' = [jar EXCEPT ![u] = NoPair]
  /\ UNCHANGED <<now, jwtConfig, accounts, reqs, checkedOut, verUpdateTried, cmpVars, tamperVars, auxVars>>

(***************************************************************************)
(* AccountRepository (src/src/db/connector.ts).                            *)
(* An updates object has the members accStatus and accJWTversion; a        *)
(* member is "undefined" / -1 when the object does not set it.             *)
(***************************************************************************)
disallowedFields_noVersion == {"accId", "accCreated"}

disallowedFields == {"accId", "accCreated", "accJWTversion"}

Undefined(updates, key) ==
  IF key = "accStatus" THEN updates.accStatus = "undefined"
  ELSE updates.accJWTversion = -1

\* the keys that reach the SET clause
updateFields(updates) ==
  {key \in {"accStatus", "accJWTversion"} :
      ~(Undefined(updates, key) \/ key \in disallowedFields)}

\* the row after UPDATE TAccounts SET ... WHERE accId = id
updatedRow(row, updates) ==
  [row EXCEPT
     !.status = IF "accStatus" \in updateFields(updates) THEN updates.accStatus ELSE @,
     !.ver = IF "accJWTversion" \in updateFields(updates) THEN updates.accJWTversion ELSE @]

UpdateAccount(id, updates) ==
  /\ accounts' = [accounts EXCEPT ![id] =
        IF ~@.exists THEN @ ELSE updatedRow(@, updates)]
  /\ verUpdateTried' =
       (verUpdateTried \/ (accounts[id].exists /\ updates.accJWTversion # -1
                           /\ updates.accJWTversion # accounts[id].ver))
  /\ UNCHANGED <<now, jwtConfig, jar, reqs, checkedOut, cmpVars, tamperVars, auxVars>>

\* UPDATE TAccounts SET accJWTversion = accJWTversion + 1 WHERE accId = id
IncrementJWTVersion(id) ==
  /\ accounts[id].ver < MaxVer
  /\ accounts' = [accounts EXCEPT ![id] =
        IF ~@.exists THEN @ ELSE [@ EXCEPT !.ver = @ + 1]]
  /\ UNCHANGED <<now, jwtConfig, jar, reqs, checkedOut, verUpdateTried, cmpVars, tamperVars, auxVars>>

(***************************************************************************)
(* jwtMiddleware (src/unnamed/part_003), one action per stretch of code    *)
(* between two awaits.  status 500 is the response of the framework to an  *)
(* exception that leaves the middleware.                                   *)
(***************************************************************************)
\* the synchronous gate: lines 176-192
\* a gate that looked at the refresh cookie before the access cookie
MwGate_refreshFirst(ac, rc, t) ==
  LET validation == validateJWTCookie(ac, t)
      refreshValidation == validateRefreshTokenCookie(rc, t)
  IN IF refreshValidation.valid = "throw" THEN [to |-> "500", userId |-> 0]
     ELSE IF refreshValidation.valid = "true"
          THEN [to |-> "getConnection", userId |-> refreshValidation.userId]
     ELSE IF validation.valid = "throw" THEN [to |-> "500", userId |-> 0]
     ELSE IF validation.valid = "true"
          THEN [to |-> "handler", userId |-> validation.userId]
     ELSE [to |-> "401", userId |-> 0]

MwGate(ac, rc, t) ==
  LET validation == validateJWTCookie(ac, t)
      refreshValidation == validateRefreshTokenCookie(rc, t)
  IN IF validation.valid = "throw" THEN [to |-> "500", userId |-> 0]
     ELSE IF validation.valid = "true"
          THEN [to |-> "handler", userId |-> validation.userId]
     ELSE IF refreshValidation.valid = "throw" THEN [to |-> "500", userId |-> 0]
     ELSE IF refreshValidation.valid = "false" THEN [to |-> "401", userId |-> 0]
     ELSE [to |-> "getConnection", userId |-> refreshValidation.userId]

MwStart(r, u, c) ==
  /\ reqs[r].pc = "idle"
  /\ LET ac == c[1]
         rc == c[2]
         g == MwGate(ac, rc, now)
     IN reqs' = [reqs EXCEPT ![r] =
          [ IdleReq EXCEPT
              !.client = u, !.access = ac, !.refresh = rc, !.t0 = now,
              !.userId = g.userId,
              !.pc = IF g.to \in {"500", "401"} THEN "done" ELSE g.to,
              !.status = CASE g.to = "500" -> 500 [] g.to = "401" -> 401 [] OTHER -> 0 ]]
  /\ UNCHANGED <<now, jwtConfig, accounts, jar, checkedOut, verUpdateTried, cmpVars, tamperVars, auxVars>>

\* const connection = await getConnection()
MwGetConnection(r) ==
  /\ reqs[r].pc = "getConnection"
  /\ checkedOut < connectionLimit
  /\ checkedOut' = checkedOut + 1
  /\ reqs' = [reqs EXCEPT ![r].pc = "query"]
  /\ UNCHANGED <<now, jwtConfig, accounts, jar, verUpdateTried, cmpVars, tamperVars, auxVars>>

\* the account query and, when it finds the row, lines 215-232
MwQuery(r) ==
  /\ reqs[r].pc = "query"
  /\ LET id == reqs[r].userId
     IN IF ~ActiveRow(accounts, id)
        THEN reqs' = [reqs EXCEPT ![r].lookup = "missing", ![r].status = 401,
                                  ![r].pc = "release"]
        ELSE IF IssueThrows(jwtConfig)
        THEN reqs' = [reqs EXCEPT ![r].lookup = "active", ![r].status = 401,
                                  ![r].pc = "release"]
        ELSE LET pair == IssuePair(jwtConfig, id, accounts[id], now)
             IN reqs' = [reqs EXCEPT ![r].lookup = "active",
                                     ![r].newAccess = pair.access,
                                     ![r].newRefresh = pair.refresh,
                                     ![r].issuedVer = pair.issuedVer,
                                     ![r].userId = id,
                                     ![r].refreshed = TRUE,
                                     ![r].pc = "handler"]
  /\ UNCHANGED <<now, jwtConfig, accounts, jar, checkedOut, verUpdateTried, cmpVars, tamperVars, auxVars>>

\* the account query rejects (database error): catch, 401
MwQueryFails(r) ==
  /\ reqs[r].pc = "query"
  /\ reqs' = [reqs EXCEPT ![r].lookup = "error", ![r].status = 401,
                          ![r].pc = "release"]
  /\ UNCHANGED <<now, jwtConfig, accounts, jar, checkedOut, verUpdateTried, cmpVars, tamperVars, auxVars>>

\* await next(): the protected handler runs and answers
MwHandler(r) ==
  /\ reqs[r].pc = "handler"
  /\ reqs' = [reqs EXCEPT ![r].handlerRan = TRUE, ![r].status = 200,
                          ![r].pc = IF reqs[r].refreshed THEN "release" ELSE "done"]
  /\ IF reqs[r].refreshed
     THEN jar' = [jar EXCEPT ![reqs[r].client] =
                    [access |-> reqs[r].newAccess, refresh |-> reqs[r].newRefresh,
                     issuedVer |-> reqs[r].issuedVer]]
     ELSE UNCHANGED jar
  /\ UNCHANGED <<now, jwtConfig, accounts, checkedOut, verUpdateTried, cmpVars, tamperVars, auxVars>>

\* finally { connection.release() }
MwRelease(r) ==
  /\ reqs[r].pc = "release"
  /\ checkedOut' = checkedOut - 1
  /\ reqs' = [reqs EXCEPT ![r].pc = "done"]
  /\ UNCHANGED <<now, jwtConfig, accounts, jar, verUpdateTried, cmpVars, tamperVars, auxVars>>

\* the response has been sent; the slot serves the next request
MwDone(r) ==
  /\ reqs[r].pc = "done"
  /\ reqs' = [reqs EXCEPT ![r] = IdleReq]
  /\ UNCHANGED <<now, jwtConfig, accounts, jar, checkedOut, verUpdateTried, cmpVars, tamperVars, auxVars>>

Updates ==
  [accStatus : Statuses \cup {"undefined"}, accJWTversion : {-1} \cup (0..MaxVer)]

Next ==
  \/ Tick
  \/ \E u \in Users : Signup(u, "p")
  \/ \E u \in Users, password \in Passwords : Login(u, password)
  \/ \E u \in Users : \E rc \in RefreshChoices(jar[u]) : Refresh(u, rc)
  \/ \E u \in Users : Logout(u)
  \/ \E u \in Users, updates \in Updates : UpdateAccount(u, updates)
  \/ \E u \in Users : IncrementJWTVersion(u)
  \/ \E u \in Users : \E c \in CookiePairs(jar[u]) : MwStart(1, u, c)
  \/ \E r \in Reqs : MwGetConnection(r)
  \/ \E r \in Reqs : MwQuery(r)
  \/ \E r \in Reqs : MwQueryFails(r)
  \/ \E r \in Reqs : MwHandler(r)
  \/ \E r \in Reqs : MwRelease(r)
  \/ \E r \in Reqs : MwDone(r)

Spec == Init /\ [][Next]_vars

(***************************************************************************)
(* The route handlers and the repository alone, without requests to        *)
(* protected routes.                                                       *)
(***************************************************************************)
NextRoutes ==
  \/ Tick
  \/ \E u \in Users, password \in Passwords : Signup(u, password)
  \/ \E u \in Users, password \in Passwords : Login(u, password)
  \/ \E u \in Users : \E rc \in RefreshChoices(jar[u]) : Refresh(u, rc)
  \/ \E u \in Users : Logout(u)
  \/ \E u \in Users, updates \in Updates : UpdateAccount(u, updates)
  \/ \E u \in Users : IncrementJWTVersion(u)

SpecRoutes == Init /\ [][NextRoutes]_vars

(***************************************************************************)
(* Concurrent requests of clients that send the cookies they hold.         *)
(***************************************************************************)
NextConcurrent ==
  \/ Tick
  \/ \E u \in Users : Signup(u, "p")
  \/ \E u \in Users : Login(u, "p")
  \/ \E u \in Users : UpdateAccount(u, [accStatus |-> "suspended", accJWTversion |-> -1])
  \/ \E r \in Reqs, u \in Users : MwStart(r, u, <<jar[u].access, jar[u].refresh>>)
  \/ \E r \in Reqs : MwGetConnection(r)
  \/ \E r \in Reqs : MwQuery(r)
  \/ \E r \in Reqs : MwQueryFails(r)
  \/ \E r \in Reqs : MwHandler(r)
  \/ \E r \in Reqs : MwRelease(r)
  \/ \E r \in Reqs : MwDone(r)

SpecConcurrent == Init /\ [][NextConcurrent]_vars

(***************************************************************************)
(* The connection pool: every operation that takes a connection, one       *)
(* action per stretch of code between two awaits.                          *)
(***************************************************************************)
\* createSchema() at startup calls schemaExists()
SchemaStart ==
  /\ schemaPc = "idle"
  /\ schemaPc' = "getConnection"
  /\ UNCHANGED <<sysVars, notPool, signupReq>>

\* const connection = await getConnection()
SchemaGetConnection ==
  /\ schemaPc = "getConnection"
  /\ checkedOut < connectionLimit
  /\ checkedOut' = checkedOut + 1
  /\ schemaPc' = "query"
  /\ UNCHANGED <<now, jwtConfig, accounts, jar, reqs, verUpdateTried, notPool, signupReq>>

\* the query resolves: connection.end() gives the connection up, return
SchemaQuery ==
  /\ schemaPc = "query"
  /\ checkedOut' = checkedOut - 1
  /\ schemaPc' = "done"
  /\ UNCHANGED <<now, jwtConfig, accounts, jar, reqs, verUpdateTried, notPool, signupReq>>

\* the query rejects: control goes to catch, which throws DatabaseError;
\* connection.end() is skipped and there is no finally
SchemaQueryFails ==
  /\ schemaPc = "query"
  /\ schemaPc' = "done"
  /\ UNCHANGED <<sysVars, notPool, signupReq>>

\* POST /signup with a password that passes the policy
SgStart(u) ==
  /\ signupReq.pc = "idle"
  /\ signupReq' = [IdleSignup EXCEPT !.pc = "getConnection", !.client = u]
  /\ UNCHANGED <<sysVars, notPool, schemaPc>>

\* const connection = await getConnection()
SgGetConnection ==
  /\ signupReq.pc = "getConnection"
  /\ checkedOut < connectionLimit
  /\ checkedOut' = checkedOut + 1
  /\ signupReq' = [signupReq EXCEPT !.pc = "try"]
  /\ UNCHANGED <<now, jwtConfig, accounts, jar, reqs, verUpdateTried, notPool, schemaPc>>

\* the try block runs to a return (400 or 201) or to the throw of
\* createSignedJWT, after the commit.  beginTransaction opens the
\* transaction; "Email already in use" returns without ending it; the
\* commit of line 55 ends it, and the rollback of the catch after a commit
\* has nothing left to undo
SgTry(password) ==
  /\ signupReq.pc = "try"
  /\ LET u == signupReq.client
     IN /\ accounts' = [accounts EXCEPT ![u] = SignupResult(u, password).row]
        /\ jar' = [jar EXCEPT ![u] = SignupResult(u, password).pair]
        /\ signupReq' = [signupReq EXCEPT !.pc = "finally",
                                          !.status = SignupResult(u, password).status,
                                          !.transaction =
                                             IF SignupResult(u, password).status = 400
                                             THEN "open" ELSE "committed"]
  /\ UNCHANGED <<now, jwtConfig, reqs, checkedOut, verUpdateTried, notPool, schemaPc>>

\* a statement of the try block rejects before the commit: catch,
\* rollback, throw DatabaseError
SgTryFails ==
  /\ signupReq.pc = "try"
  /\ signupReq' = [signupReq EXCEPT !.pc = "finally", !.status = 500,
                                    !.transaction = "rolled back"]
  /\ UNCHANGED <<sysVars, notPool, schemaPc>>

\* finally { connection.release() }
SgFinally ==
  /\ signupReq.pc = "finally"
  /\ checkedOut' = checkedOut - 1
  /\ signupReq' = [signupReq EXCEPT !.pc = "done"]
  /\ UNCHANGED <<now, jwtConfig, accounts, jar, reqs, verUpdateTried, notPool, schemaPc>>

\* the response has been sent
SgDone ==
  /\ signupReq.pc = "done"
  /\ signupReq' = IdleSignup
  /\ UNCHANGED <<sysVars, notPool, schemaPc>>

NextPool ==
  \/ Tick
  \/ SchemaStart
  \/ SchemaGetConnection
  \/ SchemaQuery
  \/ SchemaQueryFails
  \/ \E u \in Users : SgStart(u)
  \/ SgGetConnection
  \/ SgTry("p")
  \/ SgTryFails
  \/ SgFinally
  \/ SgDone
  \/ \E u \in Users : MwStart(1, u, <<jar[u].access, jar[u].refresh>>)
  \/ \E r \in Reqs : MwGetConnection(r)
  \/ \E r \in Reqs : MwQuery(r)
  \/ \E r \in Reqs : MwQueryFails(r)
  \/ \E r \in Reqs : MwHandler(r)
  \/ \E r \in Reqs : MwRelease(r)
  \/ \E r \in Reqs : MwDone(r)

SpecPool == Init /\ [][NextPool]_vars

(***************************************************************************)
(* timingSafeCompare as a function of two strings.                         *)
(***************************************************************************)
CmpChars == {0, 1, 2, 3}

\* the caller builds the two strings character by character and calls
CmpPushA(c) ==
  /\ cmpRes = "none"
  /\ Len(cmpA) < MaxCmpLen
  /\ cmpA' = Append(cmpA, c)
  /\ UNCHANGED <<sysVars, tamperVars, auxVars, cmpB, cmpRes>>

CmpPushB(c) ==
  /\ cmpRes = "none"
  /\ Len(cmpB) < MaxCmpLen
  /\ cmpB' = Append(cmpB, c)
  /\ UNCHANGED <<sysVars, tamperVars, auxVars, cmpA, cmpRes>>

Compare ==
  /\ cmpRes = "none"
  /\ cmpRes' = timingSafeCompare(cmpA, cmpB)
  /\ UNCHANGED <<sysVars, tamperVars, auxVars, cmpA, cmpB>>

NextCompare ==
  \/ \E c \in CmpChars : CmpPushA(c)
  \/ \E c \in CmpChars : CmpPushB(c)
  \/ Compare

InitCompare ==
  /\ Init
  /\ jwtConfig = [expiresIn |-> <<"1", "s">>, refreshExpiresIn |-> <<"2", "s">>]

SpecCompare == InitCompare /\ [][NextCompare]_vars

(***************************************************************************)
(* stringToJWT as a function of a string that the caller assembles from    *)
(* pieces: ".", an encoded header, an encoded payload, a segment that is   *)
(* not the encoding of JSON, and a signature that nobody computed.         *)
(***************************************************************************)
FixedConfig == [expiresIn |-> <<"1", "s">>, refreshExpiresIn |-> <<"2", "s">>]

DecPieces ==
  { <<Dot>>,
    base64UrlEncode(JSONstringifyHeader(createHeader)),
    base64UrlEncode(JSONstringifyPayload(createRefreshPayload(FixedConfig, 1, NoVer, 1))),
    <<7, 7>>,
    <<1>> }

DecPush(piece) ==
  /\ decOut = NotCalled
  /\ decN < MaxPieces
  /\ decIn' = decIn \o piece
  /\ decN' = decN + 1
  /\ UNCHANGED <<notCodec, decOut>>

Decode ==
  /\ decOut = NotCalled
  /\ decOut' = stringToJWT(split(decIn))
  /\ UNCHANGED <<notCodec, decIn, decN>>

NextCodec ==
  \/ \E piece \in DecPieces : DecPush(piece)
  \/ Decode

SpecCodec == InitCompare /\ [][NextCodec]_vars

(***************************************************************************)
(* Password hashes.  A password is a string of characters; a hexadecimal   *)
(* string uses the hexadecimal digits "c" (2) and "3" (4) of the character *)
(* set above, so that timingSafeCompare decodes it as the code does.       *)
(***************************************************************************)
RECURSIVE WeightedSumOf(_, _, _)
\* the sum of i * text[i] for i in lo..hi
WeightedSumOf(text, lo, hi) ==
  IF lo > hi THEN 0
  ELSE IF lo = hi THEN lo * text[lo]
  ELSE WeightedSumOf(text, lo, (lo + hi) \div 2)
         + WeightedSumOf(text, (lo + hi) \div 2 + 1, hi)

WeightedSum(text) == WeightedSumOf(text, 1, Len(text))

\* createHash("sha512").update(text).digest("hex"): 128 hexadecimal digits
\* that depend on every character of the text
sha512hex(text) ==
  LET sum == WeightedSum(text) % 16
  IN [i \in 1..128 |-> IF (sum \div (2 ^ ((i - 1) % 4))) % 2 = 1 THEN 2 ELSE 4]

\* the bytes crypto.randomBytes may return, as two hexadecimal digits each
RandomBytes == { <<2, 2>>, <<2, 4>>, <<4, 4>> }

\* crypto.randomBytes(n).toString("hex"): 2n hexadecimal digits
randomBytesHex(n, byte) == [i \in 1..(2 * n) |-> byte[2 - (i % 2)]]

generateSalt(saltLength, byte) == randomBytesHex(saltLength, byte)

hashPassword(password, salt) == sha512hex(password \o salt)

generateDBHash(password, saltLength, byte) ==
  hashPassword(password, generateSalt(saltLength, byte))
    \o generateSalt(saltLength, byte)

\* String.prototype.slice(from, to) with 0 <= from <= to
slice(str, from, to) ==
  SubSeq(str, from + 1, IF to < Len(str) THEN to ELSE Len(str))

\* "true", "false" or "throw" (HASH_INVALID_LENGTH, or what
\* timingSafeCompare throws)
verifyPassword(dbHash, providedPassword) ==
  IF Len(dbHash) # 192 THEN "throw"
  ELSE timingSafeCompare(slice(dbHash, 0, 128),
                         hashPassword(providedPassword, slice(dbHash, 128, 192)))

\* "abcdefghijklmnopqrstuvwxyz" and "zyxwvutsrqponmlkjihgfedcba"
DummyPassword == <<1, 3, 5>>
DummyProvided == <<5, 3, 1>>

dummyHashVerify(saltLength, byte) ==
  verifyPassword(hashPassword(DummyPassword, generateSalt(saltLength, byte))
                   \o generateSalt(saltLength, byte),
                 DummyProvided)

\* the calls of hashPassword and of timingSafeCompare that one call of
\* verifyPassword makes
verifyPasswordWork(dbHash) ==
  IF Len(dbHash) # 192 THEN [hashPassword |-> 0, timingSafeCompare |-> 0]
  ELSE [hashPassword |-> 1, timingSafeCompare |-> 1]

\* ... that one call of dummyHashVerify makes: the dummy hash, then
\* verifyPassword
dummyHashVerifyWork(saltLength, byte) ==
  LET dummyDBhash == hashPassword(DummyPassword, generateSalt(saltLength, byte))
                       \o generateSalt(saltLength, byte)
  IN [ hashPassword |-> 1 + verifyPasswordWork(dummyDBhash).hashPassword,
       timingSafeCompare |-> verifyPasswordWork(dummyDBhash).timingSafeCompare ]

\* ... that POST /login makes before it answers "Wrong email or password":
\* no row found (users.length === 0), or a row found and verifyPassword
LoginWork(found, emailEnumerationProtection, stored, saltLength, byte) ==
  IF found THEN verifyPasswordWork(stored)
  ELSE IF emailEnumerationProtection THEN dummyHashVerifyWork(saltLength, byte)
  ELSE [hashPassword |-> 0, timingSafeCompare |-> 0]

\* the status POST /login answers with when the credentials are not
\* accepted or verifyPassword says true: 401 "Wrong email or password",
\* 200, or 500 when dummyHashVerify or verifyPassword throws (the catch
\* rethrows it as DatabaseError).  A row whose accPasswordHash is null is
\* stored = <<>>: reading its length throws
loginStatus(found, stored, password, emailEnumerationProtection, saltLength, byte) ==
  IF ~found
  THEN IF emailEnumerationProtection /\ dummyHashVerify(saltLength, byte) = "throw"
       THEN 500 ELSE 401
  ELSE CASE verifyPassword(stored, password) = "throw" -> 500
         [] verifyPassword(stored, password) = "false" -> 401
         [] OTHER -> 200

\* the tagged format `${type}:${salt}:${hash}` of the older hashPassword:
\* ":" and the tag "512"
Colon == 9
Tag512 == <<10, 11, 12>>
\* what a missing part is in a concatenation or a comparison: undefined
UndefinedPart == <<13>>

hashPasswordTagged(password, saltLength, byte) ==
  LET salt == randomBytesHex(saltLength \div 8, byte)
  IN Tag512 \o <<Colon>> \o salt \o <<Colon>> \o sha512hex(password \o salt)

\* const [type, salt, hash] = storedHash.split(":")
PartOf(parts, i) == IF i <= Len(parts) THEN parts[i] ELSE UndefinedPart

\* "true", "false" or "throw" (NotFoundError)
verifyPasswordTagged(password, storedHash) ==
  LET parts == splitAt(storedHash, Colon)
      type == PartOf(parts, 1)
      salt == PartOf(parts, 2)
      hash == PartOf(parts, 3)
  IN IF type = Tag512
     THEN IF sha512hex(password \o salt) = hash THEN "true" ELSE "false"
     ELSE "throw"

\* the values config.json may hold for passwordSaltLength
SaltLengthCandidates ==
  [type : {"number"}, value : {16, 32, 64}] \cup {[type |-> "string", value |-> 32]}

\* typeof cfg.passwordSaltLength !== "number" is the only check of it
validateRequiredProperties(cfg) == cfg.passwordSaltLength.type = "number"

HashPasswords == { <<1>>, <<3>> }

\* the first getConfig() loads and validates config.json
PwGetConfig(n) ==
  /\ passwordSaltLength = NotLoaded
  /\ validateRequiredProperties([passwordSaltLength |-> n])
  /\ passwordSaltLength' = n.value
  /\ UNCHANGED <<notPw, pw, pwRes>>

\* generateDBHash(password) at signup
PwGenerate(password, byte) ==
  /\ passwordSaltLength # NotLoaded
  /\ pw = NoCredential
  /\ pw' = [stored |-> generateDBHash(password, passwordSaltLength, byte),
            owner |-> password, form |-> "hash+salt", damage |-> "none"]
  /\ UNCHANGED <<notPw, passwordSaltLength, pwRes>>

\* hashPassword(password, config) of the tagged format
PwHashTagged(password, byte) ==
  /\ passwordSaltLength # NotLoaded
  /\ pw = NoCredential
  /\ pw' = [stored |-> hashPasswordTagged(password, passwordSaltLength, byte),
            owner |-> password, form |-> "tagged", damage |-> "none"]
  /\ UNCHANGED <<notPw, passwordSaltLength, pwRes>>

\* the stored string with its last character lost, or (tagged format) with
\* the digest part, the salt part or the tag missing, or with another tag
Damaged(stored, form, kind) ==
  LET parts == splitAt(stored, Colon)
  IN CASE kind = "length" -> SubSeq(stored, 1, Len(stored) - 1)
       [] kind = "digest" -> parts[1] \o <<Colon>> \o parts[2]
       [] kind = "salt" -> parts[1] \o <<Colon>> \o parts[3]
       [] kind = "tag" -> parts[2] \o <<Colon>> \o parts[3]
       [] kind = "other tag" -> <<10, 12, 11>> \o <<Colon>> \o parts[2]
                                  \o <<Colon>> \o parts[3]

PwDamage(kind) ==
  /\ pw.form # "none" /\ pw.damage = "none"
  /\ pwRes = NoPwRes
  /\ pw.form = "hash+salt" => kind = "length"
  /\ pw' = [pw EXCEPT !.stored = Damaged(pw.stored, pw.form, kind),
                      !.damage = kind]
  /\ UNCHANGED <<notPw, passwordSaltLength, pwRes>>

PwVerify(password) ==
  /\ pw.form # "none"
  /\ pwRes = NoPwRes
  /\ pwRes' = [kind |-> "verify", tried |-> password,
               res |-> IF pw.form = "tagged"
                       THEN verifyPasswordTagged(password, pw.stored)
                       ELSE verifyPassword(pw.stored, password)]
  /\ UNCHANGED <<notPw, passwordSaltLength, pw>>

PwDummy(byte) ==
  /\ passwordSaltLength # NotLoaded
  /\ pwRes = NoPwRes
  /\ pwRes' = [kind |-> "dummy", tried |-> DummyProvided,
               res |-> dummyHashVerify(passwordSaltLength, byte)]
  /\ UNCHANGED <<notPw, passwordSaltLength, pw>>

NextPassword ==
  \/ \E n \in SaltLengthCandidates : PwGetConfig(n)
  \/ \E password \in HashPasswords, byte \in RandomBytes :
       \/ PwGenerate(password, byte)
       \/ PwHashTagged(password, byte)
  \/ \E kind \in {"length", "digest", "salt", "tag", "other tag"} : PwDamage(kind)
  \/ \E password \in HashPasswords : PwVerify(password)
  \/ \E byte \in RandomBytes : PwDummy(byte)

SpecPassword == InitCompare /\ [][NextPassword]_vars

(***************************************************************************)
(* parseTimeToSeconds as a whole: the argument is a number or a string     *)
(* typed character by character; an AuthKitError is throws = TRUE.         *)
(***************************************************************************)
TimeChars == {"0", "1", "2", "s", "m", "h", "d", "S", "x", "-", ".", " "}
TimeNumbers == {0, 1, 60}

parseTimeToSecondsOf(time) ==
  IF time.type = "number" THEN [called |-> TRUE, throws |-> FALSE, value |-> time.value]
  ELSE IF ~TimeFormatOK(time.text) THEN [called |-> TRUE, throws |-> TRUE, value |-> 0]
  ELSE [called |-> TRUE, throws |-> FALSE, value |-> parseTimeToSeconds(time.text)]

TimeType(ch) ==
  /\ timeArg.type = "string"
  /\ Len(timeArg.text) < MaxTimeLen
  /\ timeArg' = [timeArg EXCEPT !.text = Append(@, ch)]
  /\ timeRes' = NoTimeResult
  /\ UNCHANGED <<sysVars, cmpVars, tamperVars, poolVars, codecVars, pwVars, ckVars, svc, flight, orgVars, lazyVars>>

TimeNumber(n) ==
  /\ timeArg.text = <<>>
  /\ timeArg' = [type |-> "number", text |-> <<>>, value |-> n]
  /\ timeRes' = NoTimeResult
  /\ UNCHANGED <<sysVars, cmpVars, tamperVars, poolVars, codecVars, pwVars, ckVars, svc, flight, orgVars, lazyVars>>

TimeParse ==
  /\ ~timeRes.called
  /\ timeRes' = parseTimeToSecondsOf(timeArg)
  /\ UNCHANGED <<sysVars, cmpVars, tamperVars, poolVars, codecVars, pwVars, ckVars, svc, flight, timeArg, orgVars, lazyVars>>

NextTime ==
  \/ \E ch \in TimeChars : TimeType(ch)
  \/ \E n \in TimeNumbers : TimeNumber(n)
  \/ TimeParse

SpecTime == InitCompare /\ [][NextTime]_vars

(***************************************************************************)
(* GET /me behind jwtMiddleware, many requests at once.  Requests are      *)
(* counted by the await they are at:                                       *)
(*   mwGetConnection  jwtMiddleware, refresh path, await getConnection()   *)
(*   mwQuery          jwtMiddleware holds a connection, await execute      *)
(*   meGetConnection  the handler, await getConnection(); a request of the *)
(*                    refresh path still holds the middleware's connection *)
(*   meQuery          the handler holds its connection, await execute      *)
(*   mwFinally        the handler has returned, finally { release() }      *)
(* The pool (waitForConnections: true, queueLimit: 0) lets a caller of     *)
(* getConnection wait until fewer than connectionLimit are checked out.    *)
(***************************************************************************)
MePaths == {"access", "refresh"}

\* a request arrives: a valid access cookie goes to the handler, a valid
\* refresh cookie to getConnection, anything else is answered 401
MeArrive(path) ==
  /\ flight.started < MaxRequests
  /\ flight' =
       CASE path = "access" ->
              [flight EXCEPT !.started = @ + 1, !.meGetConnection.access = @ + 1]
         [] path = "refresh" ->
              [flight EXCEPT !.started = @ + 1, !.mwGetConnection = @ + 1]
         [] OTHER ->
              [flight EXCEPT !.started = @ + 1, !.completed = @ + 1]
  /\ UNCHANGED <<checkedOut, notFlight>>

MeMwGetConnection ==
  /\ flight.mwGetConnection > 0
  /\ checkedOut < connectionLimit
  /\ checkedOut' = checkedOut + 1
  /\ flight' = [flight EXCEPT !.mwGetConnection = @ - 1, !.mwQuery = @ + 1]
  /\ UNCHANGED notFlight

\* the account query: the row is found and next() is awaited, or the
\* request is answered 401 and goes to finally
MeMwQuery(found) ==
  /\ flight.mwQuery > 0
  /\ flight' = IF found
               THEN [flight EXCEPT !.mwQuery = @ - 1, !.meGetConnection.refresh = @ + 1]
               ELSE [flight EXCEPT !.mwQuery = @ - 1, !.mwFinally = @ + 1]
  /\ UNCHANGED <<checkedOut, notFlight>>

MeGetConnection(path) ==
  /\ flight.meGetConnection[path] > 0
  /\ checkedOut < connectionLimit
  /\ checkedOut' = checkedOut + 1
  /\ flight' = [flight EXCEPT !.meGetConnection[path] = @ - 1, !.meQuery[path] = @ + 1]
  /\ UNCHANGED notFlight

\* the handler's query, its answer and its finally { connection.release() }
MeQuery(path) ==
  /\ flight.meQuery[path] > 0
  /\ checkedOut' = checkedOut - 1
  /\ flight' = IF path = "refresh"
               THEN [flight EXCEPT !.meQuery[path] = @ - 1, !.mwFinally = @ + 1]
               ELSE [flight EXCEPT !.meQuery[path] = @ - 1, !.completed = @ + 1]
  /\ UNCHANGED notFlight

MeMwFinally ==
  /\ flight.mwFinally > 0
  /\ checkedOut' = checkedOut - 1
  /\ flight' = [flight EXCEPT !.mwFinally = @ - 1, !.completed = @ + 1]
  /\ UNCHANGED notFlight

NextFlight ==
  \/ \E path \in MePaths \cup {"rejected"} : MeArrive(path)
  \/ MeMwGetConnection
  \/ \E found \in BOOLEAN : MeMwQuery(found)
  \/ \E path \in MePaths : MeGetConnection(path)
  \/ \E path \in MePaths : MeQuery(path)
  \/ MeMwFinally

\* every continuation that is ready runs, and the pool hands a free
\* connection to a waiting caller
SpecFlight ==
  /\ InitCompare /\ [][NextFlight]_vars
  /\ WF_vars(MeMwGetConnection)
  /\ WF_vars(\E found \in BOOLEAN : MeMwQuery(found))
  /\ WF_vars(\E path \in MePaths : MeGetConnection(path))
  /\ WF_vars(\E path \in MePaths : MeQuery(path))
  /\ WF_vars(MeMwFinally)

(***************************************************************************)
(* POST /org/create after jwtMiddleware has set userId: one action per     *)
(* await.  The rows a transaction writes are kept in orgReq.written until  *)
(* the commit adds them to the tables; a rollback drops them.  The         *)
(* auto-increment id of TOrganizations is used up by a rolled-back insert. *)
(***************************************************************************)
OrgSeedOwnerGroup ==
  /\ ~orgTables.ownerGroup
  /\ orgTables' = [orgTables EXCEPT !.ownerGroup = TRUE]
  /\ UNCHANGED <<rest, checkedOut, lazyVars, orgReq>>

OrgStart(u) ==
  /\ orgReq.pc = "idle"
  /\ orgReq' = [IdleOrg EXCEPT !.pc = "getConnection", !.userId = u]
  /\ UNCHANGED <<rest, checkedOut, lazyVars, orgTables>>

OrgGetConnection ==
  /\ orgReq.pc = "getConnection"
  /\ checkedOut < connectionLimit
  /\ checkedOut' = checkedOut + 1
  /\ orgReq' = [orgReq EXCEPT !.pc = "beginTransaction"]
  /\ UNCHANGED <<rest, lazyVars, orgTables>>

OrgBeginTransaction ==
  /\ orgReq.pc = "beginTransaction"
  /\ orgReq' = [orgReq EXCEPT !.pc = "insert organization", !.transaction = "open"]
  /\ UNCHANGED <<rest, checkedOut, lazyVars, orgTables>>

\* insert into TOrganizations; orgId = insertId
OrgInsertOrganization ==
  /\ orgReq.pc = "insert organization"
  /\ orgTables.insertId < MaxOrgs
  /\ orgTables' = [orgTables EXCEPT !.insertId = @ + 1]
  /\ orgReq' = [orgReq EXCEPT !.pc = "insert membership",
                              !.orgId = orgTables.insertId + 1,
                              !.written.organization = TRUE]
  /\ UNCHANGED <<rest, checkedOut, lazyVars>>

\* insert into TOrgMemberships
OrgInsertMembership ==
  /\ orgReq.pc = "insert membership"
  /\ orgReq' = [orgReq EXCEPT !.pc = "insert owner", !.written.membership = TRUE]
  /\ UNCHANGED <<rest, checkedOut, lazyVars, orgTables>>

\* a version that commits whatever affectedRows is
OrgInsertOwner_unchecked ==
  /\ orgReq.pc = "insert owner"
  /\ orgReq' = [orgReq EXCEPT !.pc = "commit", !.written.owner = orgTables.ownerGroup]
  /\ UNCHANGED <<rest, checkedOut, lazyVars, orgTables>>

\* insert into TGroupMemberships ... select ... from TGroups where
\* groupName = 'Owner' and orgId is null limit 1; affectedRows !== 1
\* throws DatabaseError
OrgInsertOwner ==
  /\ orgReq.pc = "insert owner"
  /\ orgReq' = IF orgTables.ownerGroup
               THEN [orgReq EXCEPT !.pc = "commit", !.written.owner = TRUE]
               ELSE [orgReq EXCEPT !.pc = "catch"]
  /\ UNCHANGED <<rest, checkedOut, lazyVars, orgTables>>

\* await connection.commit(); return 201
OrgCommit ==
  /\ orgReq.pc = "commit"
  /\ LET row == <<orgReq.orgId, orgReq.userId>>
     IN orgTables' =
          [orgTables EXCEPT
             !.TOrganizations =
                IF orgReq.written.organization THEN @ \cup {orgReq.orgId} ELSE @,
             !.TOrgMemberships = IF orgReq.written.membership THEN @ \cup {row} ELSE @,
             !.TGroupMemberships = IF orgReq.written.owner THEN @ \cup {row} ELSE @]
  /\ orgReq' = [orgReq EXCEPT !.pc = "finally", !.written = NothingWritten,
                              !.transaction = "committed", !.status = 201]
  /\ UNCHANGED <<rest, checkedOut, lazyVars>>

\* one of the awaits between beginTransaction and commit rejects
OrgThrows ==
  /\ orgReq.pc \in {"beginTransaction", "insert organization", "insert membership",
                    "insert owner", "commit"}
  /\ orgReq' = [orgReq EXCEPT !.pc = "catch"]
  /\ UNCHANGED <<rest, checkedOut, lazyVars, orgTables>>

\* catch: await connection.rollback(); throw DatabaseError
OrgCatch ==
  /\ orgReq.pc = "catch"
  /\ orgReq' = [orgReq EXCEPT !.pc = "finally", !.written = NothingWritten,
                              !.transaction = "rolled back", !.status = 500]
  /\ UNCHANGED <<rest, checkedOut, lazyVars, orgTables>>

\* finally { connection.release() }
OrgFinally ==
  /\ orgReq.pc = "finally"
  /\ checkedOut' = checkedOut - 1
  /\ orgReq' = [orgReq EXCEPT !.pc = "done"]
  /\ UNCHANGED <<rest, lazyVars, orgTables>>

OrgDone ==
  /\ orgReq.pc = "done"
  /\ orgReq' = IdleOrg
  /\ UNCHANGED <<rest, checkedOut, lazyVars, orgTables>>

NextOrg ==
  \/ OrgSeedOwnerGroup
  \/ \E u \in Users : OrgStart(u)
  \/ OrgGetConnection
  \/ OrgBeginTransaction
  \/ OrgInsertOrganization
  \/ OrgInsertMembership
  \/ OrgInsertOwner
  \/ OrgCommit
  \/ OrgThrows
  \/ OrgCatch
  \/ OrgFinally
  \/ OrgDone

SpecOrg == InitCompare /\ [][NextOrg]_vars

(***************************************************************************)
(* getConnection (src/src/config/config.ts) called by several callers at   *)
(* once, one action per stretch of code between two awaits, and initDB of  *)
(* the connector.  closeConnection and closeDB have no caller.             *)
(***************************************************************************)
GcEnter_noCheck(c, ok) ==
  /\ calls[c].pc = "idle"
  /\ IF ok
     THEN /\ pool' = [current |-> pool.created + 1, created |-> pool.created + 1]
          /\ calls' = [calls EXCEPT ![c] =
                         [pc |-> "getConnection", pool |-> pool.created + 1,
                          error |-> "none"]]
     ELSE /\ pool' = pool
          /\ calls' = [calls EXCEPT ![c] =
                         [pc |-> "failed", pool |-> 0, error |-> "DatabaseError"]]
  /\ UNCHANGED <<rest, checkedOut, orgVars, pgPool>>

\* lines 96-113 up to the await: if (!pool) { getConfig(); pool =
\* mysql.createPool(...) }, then pool.getConnection() is called.  ok is
\* FALSE when getConfig or createPool throws: the catch throws
\* DatabaseError and pool is still null
GcEnter(c, ok) ==
  /\ calls[c].pc = "idle"
  /\ IF pool.current # 0
     THEN /\ pool' = pool
          /\ calls' = [calls EXCEPT ![c] =
                         [pc |-> "getConnection", pool |-> pool.current,
                          error |-> "none"]]
     ELSE IF ok
     THEN /\ pool' = [current |-> pool.created + 1, created |-> pool.created + 1]
          /\ calls' = [calls EXCEPT ![c] =
                         [pc |-> "getConnection", pool |-> pool.created + 1,
                          error |-> "none"]]
     ELSE /\ pool' = pool
          /\ calls' = [calls EXCEPT ![c] =
                         [pc |-> "failed", pool |-> 0, error |-> "DatabaseError"]]
  /\ UNCHANGED <<rest, checkedOut, orgVars, pgPool>>

\* await pool.getConnection() resolves
GcResolve(c) ==
  /\ calls[c].pc = "getConnection"
  /\ checkedOut < connectionLimit
  /\ checkedOut' = checkedOut + 1
  /\ calls' = [calls EXCEPT ![c].pc = "connected"]
  /\ UNCHANGED <<rest, orgVars, pool, pgPool>>

\* await pool.getConnection() rejects: catch, throw DatabaseError
GcReject(c) ==
  /\ calls[c].pc = "getConnection"
  /\ calls' = [calls EXCEPT ![c].pc = "failed", ![c].error = "DatabaseError"]
  /\ UNCHANGED <<rest, checkedOut, orgVars, pool, pgPool>>

\* the caller releases its connection
GcRelease(c) ==
  /\ calls[c].pc = "connected"
  /\ checkedOut' = checkedOut - 1
  /\ calls' = [calls EXCEPT ![c] = IdleCall]
  /\ UNCHANGED <<rest, orgVars, pool, pgPool>>

\* the caller has dealt with the DatabaseError
GcFailed(c) ==
  /\ calls[c].pc = "failed"
  /\ calls' = [calls EXCEPT ![c] = IdleCall]
  /\ UNCHANGED <<rest, checkedOut, orgVars, pool, pgPool>>

\* initDB(config): throws for a config that is not postgres, returns the
\* pool it has, or creates one
InitDB(valid) ==
  /\ valid
  /\ pgPool.current = 0
  /\ pgPool' = [current |-> pgPool.created + 1, created |-> pgPool.created + 1]
  /\ UNCHANGED <<rest, checkedOut, orgVars, pool, calls>>

NextLazy ==
  \/ \E c \in Callers, ok \in BOOLEAN : GcEnter(c, ok)
  \/ \E c \in Callers : GcResolve(c)
  \/ \E c \in Callers : GcReject(c)
  \/ \E c \in Callers : GcRelease(c)
  \/ \E c \in Callers : GcFailed(c)
  \/ \E valid \in BOOLEAN : InitDB(valid)

SpecLazy == InitCompare /\ [][NextLazy]_vars

(***************************************************************************)
(* Cookie options: what config.json holds, what getConfig makes of it and  *)
(* what setTokenPair writes.                                               *)
(***************************************************************************)
CookieOptionsCandidates ==
  [ defined : {TRUE}, httpOnly : {TRUE}, secure : {TRUE, FALSE},
    sameSite : {"Strict", "Lax", "Bad"},
    maxAge : {60, 60 * 60, 60 * 60 * 24 * 7, 60 * 60 * 24 * 14},
    path : {"/"} ] \cup {Absent}

validateCookieOptions(opts) == opts.sameSite \in {"Strict", "Lax", "None"}

\* validateJWTConfig: the options that are there are validated
validateCookieConfig(jwt) ==
  /\ jwt.cookieOptions.defined => validateCookieOptions(jwt.cookieOptions)
  /\ jwt.refreshCookieOptions.defined => validateCookieOptions(jwt.refreshCookieOptions)

\* getConfig: config.jwtConfig.refreshCookieOptions ??= config.jwtConfig.cookieOptions
getConfig(jwt) ==
  [ loaded |-> TRUE, file |-> jwt,
    cookieOptions |-> jwt.cookieOptions,
    refreshCookieOptions |->
      IF jwt.refreshCookieOptions.defined THEN jwt.refreshCookieOptions
      ELSE jwt.cookieOptions ]

\* cookies.ts: const cookieOptions = jwtConfig?.cookieOptions ?? {...}
cookieOptions(jwt) ==
  IF jwt.cookieOptions.defined THEN jwt.cookieOptions
  ELSE [ defined |-> TRUE, httpOnly |-> TRUE, secure |-> TRUE,
         sameSite |-> "Strict", maxAge |-> 60 * 60, path |-> "/" ]

\* cookies.ts: const refreshCookieOptions = jwtConfig?.refreshCookieOptions ?? {...}
refreshCookieOptions(jwt) ==
  IF jwt.refreshCookieOptions.defined THEN jwt.refreshCookieOptions
  ELSE [cookieOptions(jwt) EXCEPT !.maxAge = 60 * 60 * 24 * 7]

CkGetConfig(jwt) ==
  /\ ~cookieCfg.loaded
  /\ validateCookieConfig(jwt)
  /\ cookieCfg' = getConfig(jwt)
  /\ UNCHANGED <<notCk, setCookies>>

\* setTokenPair: addJWTCookie and addRefreshTokenCookie
CkSetTokenPair ==
  /\ cookieCfg.loaded
  /\ setCookies' = [ written |-> TRUE, access |-> cookieOptions(cookieCfg),
                     refresh |-> refreshCookieOptions(cookieCfg) ]
  /\ UNCHANGED <<notCk, cookieCfg>>

\* clearTokenPair: both cookies deleted
CkClearTokenPair ==
  /\ setCookies.written
  /\ setCookies' = NoSetCookies
  /\ UNCHANGED <<notCk, cookieCfg>>

NextCookies ==
  \/ \E jwt \in [cookieOptions : CookieOptionsCandidates,
                  refreshCookieOptions : CookieOptionsCandidates] : CkGetConfig(jwt)
  \/ CkSetTokenPair
  \/ CkClearTokenPair

SpecCookies == InitCompare /\ [][NextCookies]_vars

(***************************************************************************)
(* AuthService (src/src/index.ts) with generateToken / verifyToken of      *)
(* part_009.  A token is one string with its "." characters; null is a     *)
(* result with null = TRUE.  An exception inside verifyToken or            *)
(* validateToken is caught there and answered null.                        *)
(***************************************************************************)
signPayload(payload, header) == createHmacDigest(Secret, header \o <<Dot>> \o payload)

generateToken(payload) ==
  LET header == base64UrlEncode(JSONstringifyHeader(createHeader))
      encodedPayload == base64UrlEncode(JSONstringifyPayload(payload))
  IN header \o <<Dot>> \o encodedPayload \o <<Dot>> \o signPayload(encodedPayload, header)

verifyToken(token, t) ==
  LET parts == splitAt(token, Dot)
      header == PartOf(parts, 1)
      payload == PartOf(parts, 2)
      signature == PartOf(parts, 3)
      text == base64UrlDecode(payload)
      decodedPayload == JSONparsePayload(text)
  IN IF signature # signPayload(payload, header)
     THEN [null |-> TRUE, payload |-> NoJWT.payload]
     ELSE IF ~JSONparseOK(text, 8) THEN [null |-> TRUE, payload |-> NoJWT.payload]
     ELSE IF decodedPayload.exp < t THEN [null |-> TRUE, payload |-> NoJWT.payload]
     ELSE IF decodedPayload.nbf # 0 /\ decodedPayload.nbf > t
     THEN [null |-> TRUE, payload |-> NoJWT.payload]
     ELSE [null |-> FALSE, payload |-> decodedPayload]

\* "SELECT * FROM TAccounts WHERE accId = $1 AND accStatus != 'deleted'";
\* null is a row with exists = FALSE
getAccountById(accs, id) ==
  IF id \in DOMAIN accs /\ accs[id].exists /\ accs[id].status # "deleted"
  THEN accs[id] ELSE NoAccount

getJWTVersion(accs, userId) ==
  IF getAccountById(accs, userId).exists THEN getAccountById(accs, userId).ver ELSE 0

\* getExpirationSeconds throws INVALID_EXPIRATION_FORMAT unless expiresIn
\* ends with one of s, m, h, d
expirationUnitOK(expStr) ==
  Len(expStr) >= 1 /\ expStr[Len(expStr)] \in {"s", "m", "h", "d"}

getExpirationSeconds(expStr) ==
  LET value == parseInt(SubSeq(expStr, 1, Len(expStr) - 1))
  IN CASE expStr[Len(expStr)] = "s" -> value
       [] expStr[Len(expStr)] = "m" -> value * 60
       [] expStr[Len(expStr)] = "h" -> value * 60 * 60
       [] expStr[Len(expStr)] = "d" -> value * 60 * 60 * 24

\* the payload of generateAuthResult (no nbf, no type)
authResultPayload(cfg, user, accs, t) ==
  [ iss |-> IssByte, sub |-> user.id,
    exp |-> t + getExpirationSeconds(cfg.expiresIn),
    iat |-> t, nbf |-> 0, type |-> 0, user |-> user,
    ver |-> getJWTVersion(accs, user.id) ]

validateToken_noVersion(token, accs, t) ==
  LET payload == verifyToken(token, t)
      account == getAccountById(accs, payload.payload.sub)
  IN IF payload.null THEN [null |-> TRUE, user |-> NoUser]
     ELSE IF ~account.exists THEN [null |-> TRUE, user |-> NoUser]
     ELSE [null |-> FALSE, user |-> payload.payload.user]

validateToken(token, accs, t) ==
  LET payload == verifyToken(token, t)
      account == getAccountById(accs, payload.payload.sub)
  IN IF payload.null THEN [null |-> TRUE, user |-> NoUser]
     ELSE IF ~account.exists \/ account.ver # payload.payload.ver
     THEN [null |-> TRUE, user |-> NoUser]
     ELSE [null |-> FALSE, user |-> payload.payload.user]

\* AuthService.login / register: generateAuthResult(user) for an account
\* that getAccountByEmail found; INVALID_EXPIRATION_FORMAT leaves no token
GenerateAuthResult(u) ==
  /\ getAccountById(accounts, u).exists
  /\ expirationUnitOK(jwtConfig.expiresIn)
  /\ LET payload == authResultPayload(jwtConfig, UserOfRow(u, accounts[u]), accounts, now)
     IN svc' = [accessToken |-> generateToken(payload), payload |-> payload]
  /\ UNCHANGED <<sysVars, cmpVars, tamperVars, poolVars, codecVars, pwVars, ckVars, flight, timeVars, orgVars, lazyVars>>

NextService ==
  \/ Tick
  \/ \E u \in Users : Signup(u, "p")
  \/ \E u \in Users : GenerateAuthResult(u)
  \/ \E u \in Users : IncrementJWTVersion(u)
  \/ \E u \in Users :
       UpdateAccount(u, [accStatus |-> "deleted", accJWTversion |-> -1])

SpecService == Init /\ [][NextService]_vars

(***************************************************************************)
(* An issued token whose encoded payload segment is altered in one         *)
(* character.                                                              *)
(***************************************************************************)
TamperIssue(u, kind, verified) ==
  /\ ~IssueThrows(jwtConfig)
  /\ LET user == [id |-> u, emailVerified |-> verified, createdAt |-> "Date"]
         jwt == IF kind = TypeAccess
                THEN createSignedJWT(jwtConfig, user, NoVer, now)
                ELSE createRefreshToken(jwtConfig, u, NoVer, now)
     IN /\ tamperJwt' = jwt
        /\ tamperOrig' = JWTtoString(jwt)
  /\ tampered' = NoCookie
  /\ tamperKind' = "none"
  /\ UNCHANGED <<sysVars, cmpVars, auxVars>>

\* one character of the encoded payload segment is replaced
TamperFlip(pos, ch) ==
  /\ tamperOrig # NoCookie
  /\ pos \in 1..Len(tamperOrig[2])
  /\ ch # tamperOrig[2][pos]
  /\ tampered' = <<tamperOrig[1], [tamperOrig[2] EXCEPT ![pos] = ch], tamperOrig[3]>>
  /\ tamperKind' = "payload"
  /\ UNCHANGED <<sysVars, cmpVars, auxVars, tamperOrig, tamperJwt>>

\* one character of the signature segment is replaced
TamperSigFlip(pos, ch) ==
  /\ tamperOrig # NoCookie
  /\ pos \in 1..Len(tamperOrig[3])
  /\ ch # tamperOrig[3][pos]
  /\ tampered' = <<tamperOrig[1], tamperOrig[2], [tamperOrig[3] EXCEPT ![pos] = ch]>>
  /\ tamperKind' = "signature"
  /\ UNCHANGED <<sysVars, cmpVars, auxVars, tamperOrig, tamperJwt>>

\* the signature segment is cut to its first n characters
TamperSigCut(n) ==
  /\ tamperOrig # NoCookie
  /\ n < Len(tamperOrig[3])
  /\ tampered' = <<tamperOrig[1], tamperOrig[2], SubSeq(tamperOrig[3], 1, n)>>
  /\ tamperKind' = "signature"
  /\ UNCHANGED <<sysVars, cmpVars, auxVars, tamperOrig, tamperJwt>>

NextTamper ==
  \/ Tick
  \/ \E u \in Users, kind \in {TypeAccess, TypeRefresh}, verified \in BOOLEAN :
        TamperIssue(u, kind, verified)
  \/ \E pos \in 1..11, ch \in Chars : TamperFlip(pos, ch)
  \/ \E pos \in 1..13, ch \in Chars : TamperSigFlip(pos, ch)
  \/ \E n \in 0..12 : TamperSigCut(n)

SpecTamper == Init /\ [][NextTamper]_vars

(***************************************************************************)
(* Properties.                                                             *)
(***************************************************************************)
PayloadOf(str) == stringToJWT(str).jwt.payload

\* str is a token exactly as the server signs it
WellSigned(str) ==
  /\ str # NoCookie
  /\ stringToJWT(str).err = "none"
  /\ stringToJWT(str).jwt.signature =
       createSignature(stringToJWT(str).jwt.header, stringToJWT(str).jwt.payload)

IssuedAs(str, kind) == WellSigned(str) /\ PayloadOf(str).type = kind

\* C1: a token issued before the account's version counter was incremented
\* is rejected by validateAccessToken / validateRefreshToken: whenever the
\* pair a client holds was issued under an older version than the account's
\* current one, neither of its tokens validates.
C1_RevokedTokensRejected ==
  \A u \in Users :
    (jar[u].access # NoCookie /\ jar[u].issuedVer < accounts[PayloadOf(jar[u].access).sub].ver)
      => /\ validateAccessTokenString(jar[u].access, now) # "true"
         /\ validateRefreshTokenString(jar[u].refresh, now) # "true"

\* C2: for all strings a and b, timingSafeCompare(a, b) returns true if and
\* only if a = b.
C2_CompareIffEqual ==
  cmpRes # "none" => ((cmpRes = "true") <=> (cmpA = cmpB))

\* C3: an issued token with one character of its encoded payload segment
\* changed is never accepted by validateAccessToken / validateRefreshToken.
C3_TamperRejected ==
  tamperKind = "payload"
    => /\ validateAccessTokenString(tampered, now) # "true"
       /\ validateRefreshTokenString(tampered, now) # "true"

\* C4: kind enforcement.  At any time the refresh token a client holds fails
\* validateAccessToken and validateJWTCookie, the access token it holds fails
\* validateRefreshToken, and a request whose access cookie is an issued
\* refresh token never takes the Authenticated path of jwtMiddleware.
C4_KindEnforced ==
  /\ \A u \in Users :
       jar[u].refresh # NoCookie
         => /\ validateAccessTokenString(jar[u].refresh, now) = "false"
            /\ validateJWTCookie(jar[u].refresh, now).valid = "false"
  /\ \A u \in Users :
       jar[u].access # NoCookie
         => validateRefreshTokenString(jar[u].access, now) = "false"
  /\ \A r \in Reqs :
       (reqs[r].pc # "idle" /\ IssuedAs(reqs[r].access, TypeRefresh))
         => /\ ~(reqs[r].pc = "handler" /\ ~reqs[r].refreshed)
            /\ ~(reqs[r].handlerRan /\ ~reqs[r].refreshed)

\* C4 witness: a request sent a refresh token that was valid as a refresh
\* token in the access cookie and was answered 401.
C4_Witness ==
  \E r \in Reqs :
    /\ reqs[r].pc = "done"
    /\ IssuedAs(reqs[r].access, TypeRefresh)
    /\ validateRefreshTokenString(reqs[r].access, reqs[r].t0) = "true"
    /\ reqs[r].status = 401
    /\ ~reqs[r].handlerRan

\* C5: the access token a client holds passes validateAccessToken in the
\* second it was issued, passes while now < exp and fails once now >= exp,
\* for every configured access lifetime.
C5_AccessLifetime ==
  \A u \in Users :
    jar[u].access # NoCookie
      => LET p == PayloadOf(jar[u].access)
             v == validateAccessTokenString(jar[u].access, now)
         IN /\ now = p.iat => v = "true"
            /\ now < p.exp => v = "true"
            /\ now >= p.exp => v = "false"

\* C6: jwtMiddleware runs the handler only when the access cookie passed
\* validateAccessToken or the refresh cookie passed validateRefreshToken and
\* the account was found active; in every other case the request is
\* answered 401 and the handler does not run.
C6_MiddlewareOutcomes ==
  \A r \in Reqs :
    reqs[r].pc = "done"
      => LET accessOK == validateJWTCookie(reqs[r].access, reqs[r].t0).valid = "true"
             refreshOK ==
               /\ validateRefreshTokenCookie(reqs[r].refresh, reqs[r].t0).valid = "true"
               /\ reqs[r].lookup = "active"
         IN /\ reqs[r].handlerRan => (accessOK \/ refreshOK)
            /\ ~(accessOK \/ refreshOK) => (reqs[r].status = 401 /\ ~reqs[r].handlerRan)

\* C7: a request with an expired issued access token and a valid refresh
\* token of an active account reaches the handler with both cookies newly
\* set, refreshed = true, userId = the account's id, and the new access
\* token expires strictly later than the old one.
C7_RefreshRotates ==
  \A r \in Reqs :
    ( /\ reqs[r].pc \in {"handler", "release", "done"}
      /\ IssuedAs(reqs[r].access, TypeAccess)
      /\ reqs[r].t0 >= PayloadOf(reqs[r].access).exp
      /\ validateRefreshTokenString(reqs[r].refresh, reqs[r].t0) = "true"
      /\ reqs[r].lookup = "active" )
      => /\ reqs[r].refreshed
         /\ reqs[r].newAccess # NoCookie
         /\ reqs[r].newRefresh # NoCookie
         /\ reqs[r].userId = PayloadOf(reqs[r].refresh).sub
         /\ PayloadOf(reqs[r].newAccess).exp > PayloadOf(reqs[r].access).exp

\* C8: the two tokens of every pair a client received carry the same sub and
\* the same ver, and that ver is the account's version counter at the time
\* the pair was issued.
C8_PairSharesSubAndVer ==
  \A u \in Users :
    jar[u].access # NoCookie
      => /\ PayloadOf(jar[u].access).sub = PayloadOf(jar[u].refresh).sub
         /\ PayloadOf(jar[u].access).ver = PayloadOf(jar[u].refresh).ver
         /\ PayloadOf(jar[u].access).ver = jar[u].issuedVer

\* a request that carries an expired issued access token and an issued
\* refresh token that is inside its validity window when the request arrives
C9_Pre(r) ==
  /\ reqs[r].pc # "idle"
  /\ IssuedAs(reqs[r].access, TypeAccess)
  /\ reqs[r].t0 >= PayloadOf(reqs[r].access).exp
  /\ IssuedAs(reqs[r].refresh, TypeRefresh)
  /\ reqs[r].t0 >= PayloadOf(reqs[r].refresh).nbf
  /\ reqs[r].t0 < PayloadOf(reqs[r].refresh).exp

AllCompleted ==
  /\ schemaPc \in {"idle", "done"}
  /\ signupReq.pc \in {"idle", "done"}
  /\ \A r \in Reqs : reqs[r].pc \in {"idle", "done"}

\* C11: once all started operations (schemaExists, POST /signup, requests
\* in jwtMiddleware) have completed, on whatever exit path, no connection
\* remains checked out of the pool.
C11_ConnectionsReleased ==
  AllCompleted => checkedOut = 0

\* C12: validateJWTCookie and validateRefreshTokenCookie never throw: for
\* the cookies of every request that reached jwtMiddleware (absent, not
\* three segments, bad signature, expired, wrong kind) each returns
\* {valid: false} or {valid: true}, and {valid: true} only for a token that
\* passes validateAccessToken / validateRefreshToken.
C12_CookieValidationNeverThrows ==
  \A r \in Reqs :
    reqs[r].pc # "idle"
      => LET v == validateJWTCookie(reqs[r].access, reqs[r].t0)
             rv == validateRefreshTokenCookie(reqs[r].refresh, reqs[r].t0)
         IN /\ v.valid \in {"true", "false"}
            /\ rv.valid \in {"true", "false"}
            /\ v.valid = "true"
                 => validateAccessTokenString(reqs[r].access, reqs[r].t0) = "true"
            /\ rv.valid = "true"
                 => validateRefreshTokenString(reqs[r].refresh, reqs[r].t0) = "true"

\* C13: a well-formed token whose signature segment differs from the
\* recomputed signature, whatever its characters and length, makes
\* validateJWT return false; it neither returns true nor throws.
C13_SignatureMismatchIsFalse ==
  ( /\ tamperKind = "signature"
    /\ stringToJWT(tampered).err = "none"
    /\ stringToJWT(tampered).jwt.signature
         # createSignature(stringToJWT(tampered).jwt.header,
                           stringToJWT(tampered).jwt.payload) )
    => validateJWT(stringToJWT(tampered).jwt, now) = "false"

\* C15: round trip.  For every token produced by createSignedJWT or
\* createRefreshToken, stringToJWT(JWTtoString(token)) succeeds and has the
\* token's header, its payload field for field (ver and the user snapshot
\* included) and its signature.
C15_RoundTrip ==
  tamperOrig # NoCookie
    => /\ stringToJWT(tamperOrig).err = "none"
       /\ stringToJWT(tamperOrig).jwt.header = tamperJwt.header
       /\ stringToJWT(tamperOrig).jwt.payload = tamperJwt.payload
       /\ stringToJWT(tamperOrig).jwt.signature = tamperJwt.signature

\* C16: every configuration that getConfig accepted has an expiresIn and a
\* refreshExpiresIn of the form <integer><unit>, so that createSignedJWT and
\* createRefreshToken never fail on the TTL while a request is served.
C16_TTLWellFormedOnceAccepted ==
  validateJWTConfig(jwtConfig)
    => /\ TimeFormatOK(jwtConfig.expiresIn)
       /\ TimeFormatOK(jwtConfig.refreshExpiresIn)
       /\ \A u \in Users :
            ~accounts[u].exists => SignupResult(u, "p").status # 500

\* C17: for every accepted passwordSaltLength, verifying the hash that
\* generateDBHash made of a password answers true for that password and
\* false for every other password.
C17_HashRoundTrip ==
  (pwRes.kind = "verify" /\ pw.form = "hash+salt" /\ pw.damage = "none")
    => pwRes.res = (IF pwRes.tried = pw.owner THEN "true" ELSE "false")

\* C18: dummyHashVerify returns false on every call, for every random salt
\* and every accepted configuration; it never returns true and never throws.
C18_DummyAlwaysFalse ==
  pwRes.kind = "dummy" => pwRes.res = "false"

\* C19: verifying against a stored credential of the wrong total length, or
\* without its tag, its salt or its digest part, or with a tag that does not
\* match the algorithm, raises an error and never returns false.
C19_MalformedCredentialThrows ==
  (pwRes.kind = "verify" /\ pw.damage # "none") => pwRes.res = "throw"

\* C20: when config.json has no refreshCookieOptions, the refresh cookie is
\* written with the attributes of the access cookie except for maxAge, which
\* is longer, whether cookieOptions is configured or left to its default.
C20_RefreshCookieOutlivesAccess ==
  (setCookies.written /\ ~cookieCfg.file.refreshCookieOptions.defined)
    => /\ [setCookies.refresh EXCEPT !.maxAge = 0]
            = [setCookies.access EXCEPT !.maxAge = 0]
       /\ setCookies.refresh.maxAge > setCookies.access.maxAge

\* C21: a signup answered 201, a login answered 200 and a refresh answered
\* 200 leave the client with an access cookie and a refresh cookie that are
\* tokens of the two kinds with the same sub; a signup, login or refresh
\* answered otherwise changes neither cookie; logout deletes both cookies.
\* (The four handlers change nothing but accounts and jar, so only the steps
\* that change one of the two and nothing else have to be looked at.)
C21_SessionLifecycle ==
  [][(/\ UNCHANGED <<now, reqs, checkedOut, verUpdateTried>>
      /\ (jar' # jar \/ accounts' # accounts)) => \A u \in Users :
       LET BothSet(j, id) ==
             /\ j.access # NoCookie /\ j.refresh # NoCookie
             /\ stringToJWT(j.access).err = "none"
             /\ stringToJWT(j.refresh).err = "none"
             /\ PayloadOf(j.access).type = TypeAccess
             /\ PayloadOf(j.refresh).type = TypeRefresh
             /\ PayloadOf(j.access).sub = id
             /\ PayloadOf(j.refresh).sub = id
       IN /\ \A password \in Passwords :
               Signup(u, password)
                 => IF SignupResult(u, password).status = 201
                    THEN BothSet(jar'[u], u) ELSE jar'[u] = jar[u]
          /\ \A password \in Passwords :
               (accounts' = accounts /\ Login(u, password))
                 => IF LoginResult(u, password).status = 200
                    THEN BothSet(jar'[u], u) ELSE jar'[u] = jar[u]
          /\ \A rc \in RefreshChoices(jar[u]) :
               (accounts' = accounts /\ Refresh(u, rc))
                 => IF RefreshResult(u, rc).status = 200
                    THEN BothSet(jar'[u], validateRefreshTokenCookie(rc, now).userId)
                    ELSE jar'[u] = jar[u]
          /\ Logout(u) => (jar'[u].access = NoCookie /\ jar'[u].refresh = NoCookie)
    ]_vars

\* C21 witness: a client that signed up or logged in holds both cookies, an
\* access token and a refresh token of its account.
C21_Witness ==
  \E u \in Users :
    /\ accounts[u].exists
    /\ IssuedAs(jar[u].access, TypeAccess) /\ IssuedAs(jar[u].refresh, TypeRefresh)
    /\ PayloadOf(jar[u].access).sub = u /\ PayloadOf(jar[u].refresh).sub = u

\* C22: a well-formed token is either accepted or rejected with the one
\* outcome false, whatever the reason (signature, expiry, not yet valid,
\* kind): validateAccessToken and validateRefreshToken return true or
\* false, and jwtMiddleware either goes on or answers 401.
C22_RejectionNotObservable ==
  \A str \in {tamperOrig, tampered} :
    (str # NoCookie /\ stringToJWT(str).err = "none")
      => /\ validateAccessTokenString(str, now) \in {"true", "false"}
         /\ validateRefreshTokenString(str, now) \in {"true", "false"}
         /\ MwGate(str, NoCookie, now).to \in {"handler", "401"}
         /\ MwGate(NoCookie, str, now).to \in {"getConnection", "401"}

\* C23: with emailEnumerationProtection, a login that finds no account does
\* exactly one hash computation and one comparison (in dummyHashVerify),
\* the same work as a login that finds the account and a wrong password.
C23_DummyWorkEqualsVerifyWork ==
  (pwRes.kind = "verify" /\ pw.form = "hash+salt" /\ pw.damage = "none")
    => \A byte \in RandomBytes :
         /\ LoginWork(FALSE, TRUE, pw.stored, passwordSaltLength, byte)
              = [hashPassword |-> 1, timingSafeCompare |-> 1]
         /\ LoginWork(FALSE, TRUE, pw.stored, passwordSaltLength, byte)
              = LoginWork(TRUE, TRUE, pw.stored, passwordSaltLength, byte)

\* C24: the payload of every issued access token and refresh token has
\* exp > nbf >= iat, for every configured lifetime that parseTimeToSeconds
\* accepts.
C24_PayloadTimesOrdered ==
  \A u \in Users :
    \A str \in {jar[u].access, jar[u].refresh} :
      str # NoCookie
        => /\ PayloadOf(str).exp > PayloadOf(str).nbf
           /\ PayloadOf(str).nbf >= PayloadOf(str).iat

\* C25: verifyToken rejects a correctly signed token at every time
\* now >= exp, now = exp included, and at every time now < nbf.
C25_VerifyTokenTimeGate ==
  svc.accessToken # <<>>
    => /\ now >= svc.payload.exp => verifyToken(svc.accessToken, now).null
       /\ now < svc.payload.nbf => verifyToken(svc.accessToken, now).null

\* C26: validateToken returns a user only when the account of the token's
\* sub exists, is not deleted and has the accJWTversion the token carries
\* as ver; a token that generateAuthResult made before the account's
\* version was incremented is answered null.
C26_ValidateTokenChecksVersion ==
  svc.accessToken # <<>>
    => LET res == validateToken(svc.accessToken, accounts, now)
           row == accounts[svc.payload.sub]
       IN /\ ~res.null => /\ row.exists /\ row.status # "deleted"
                          /\ row.ver = svc.payload.ver
                          /\ res.user.id = svc.payload.sub
          /\ row.ver > svc.payload.ver => res.null

\* C26 witness: a token made by generateAuthResult, the version of its
\* account incremented afterwards, and validateToken answers null before
\* the token has expired.
C26_Witness ==
  /\ svc.accessToken # <<>>
  /\ accounts[svc.payload.sub].ver > svc.payload.ver
  /\ ~verifyToken(svc.accessToken, now).null
  /\ validateToken(svc.accessToken, accounts, now).null

\* C27: verifyToken returns null for every string that does not have
\* exactly three segments, also when its first three segments are a
\* correctly signed, unexpired token.
C27_VerifyTokenThreeSegments ==
  svc.accessToken # <<>>
    => /\ verifyToken(svc.accessToken \o <<Dot, 1>>, now).null
       /\ verifyToken(svc.accessToken \o <<Dot>>, now).null
       /\ \A k \in 0..Len(svc.accessToken) :
            Len(splitAt(SubSeq(svc.accessToken, 1, k), Dot)) < 3
              => verifyToken(SubSeq(svc.accessToken, 1, k), now).null

\* C29: a request with a valid access cookie takes the Authenticated path
\* of jwtMiddleware, whatever its refresh cookie is: the handler runs with
\* userId = the sub of the access token and refreshed = false, no
\* connection is taken from the pool and no cookie is set or deleted.
C29_AccessPathNoSideEffects ==
  [][\A r \in Reqs :
       /\ ( /\ reqs[r].pc = "idle" /\ reqs'[r].pc # "idle"
            /\ IssuedAs(reqs'[r].access, TypeAccess)
            /\ validateJWTCookie(reqs'[r].access, now).valid = "true" )
          => /\ reqs'[r].pc = "handler"
             /\ ~reqs'[r].refreshed
             /\ reqs'[r].userId = PayloadOf(reqs'[r].access).sub
             /\ checkedOut' = checkedOut
             /\ jar' = jar
       /\ ( /\ reqs[r].pc = "handler" /\ ~reqs[r].refreshed
            /\ reqs'[r] # reqs[r] )
          => /\ reqs'[r].pc = "done" /\ reqs'[r].status = 200
             /\ ~reqs'[r].refreshed
             /\ reqs'[r].userId = reqs[r].userId
             /\ checkedOut' = checkedOut
             /\ jar' = jar
    ]_vars

\* C29 witness: a request with a valid access cookie and a refresh cookie
\* that would pass too has been answered by the handler, not refreshed.
C29_Witness ==
  \E r \in Reqs :
    /\ reqs[r].pc = "done" /\ reqs[r].handlerRan /\ ~reqs[r].refreshed
    /\ reqs[r].status = 200
    /\ IssuedAs(reqs[r].access, TypeAccess)
    /\ IssuedAs(reqs[r].refresh, TypeRefresh)
    /\ reqs[r].userId = PayloadOf(reqs[r].access).sub
    /\ checkedOut = 0

\* C30: every request that enters jwtMiddleware eventually completes,
\* however many requests are in flight at once: again and again all the
\* requests that have started have completed.
C30_EveryRequestCompletes == []<>(flight.completed = flight.started)

\* C31: a connection is never released to the pool with a transaction
\* still open: when POST /signup has released its connection, the
\* transaction it began has been committed or rolled back.
C31_NoOpenTransactionReleased ==
  signupReq.pc = "done" => signupReq.transaction \in {"committed", "rolled back"}

\* C35: POST /login answers an unknown e-mail address, an inactive account
\* and an existing account with a wrong password with the same 401,
\* whatever is stored for the account, a missing password hash included.
C35_LoginDoesNotRevealAccounts ==
  (passwordSaltLength # NotLoaded /\ pw.form = "hash+salt")
    => \A password \in HashPasswords, byte \in RandomBytes :
         \A stored \in {pw.stored, <<>>} :
           password # pw.owner
             => /\ loginStatus(FALSE, stored, password, TRUE, passwordSaltLength, byte) = 401
                /\ loginStatus(TRUE, stored, password, TRUE, passwordSaltLength, byte) = 401

\* C32: jwtMiddleware passes a request to the protected handler only for
\* an account that exists and is active at that moment, on the access
\* path and on the refresh path.
C32_HandlerOnlyForActiveAccounts ==
  [][\A r \in Reqs :
       (reqs[r].pc # "handler" /\ reqs'[r].pc = "handler")
         => ActiveRow(accounts, reqs'[r].userId)
    ]_vars

\* C33: the userId that jwtMiddleware exposes is the sub of a token this
\* server issued: a cookie that differs from the issued token, in its
\* payload or in its signature, is taken neither to the handler (as access
\* cookie) nor to the account look-up (as refresh cookie), so no userId
\* other than the issued sub is exposed.
C33_ExposedUserIdWasIssued ==
  tampered # NoCookie
    => /\ MwGate(tampered, NoCookie, now).to = "handler"
            => /\ MwGate(tampered, NoCookie, now).userId = PayloadOf(tamperOrig).sub
               /\ tampered = tamperOrig
       /\ MwGate(NoCookie, tampered, now).to = "getConnection"
            => /\ MwGate(NoCookie, tampered, now).userId = PayloadOf(tamperOrig).sub
               /\ tampered = tamperOrig

C38_PoolCreatedOnce ==
  /\ pool.created <= 1
  /\ pgPool.created <= 1
  /\ \A c \in Callers :
       /\ calls[c].pc \in {"getConnection", "connected"}
            => calls[c].pool = pool.current /\ pool.created = 1
       /\ calls[c].pc = "failed" => calls[c].error = "DatabaseError"
  /\ pool.current = 0 => pool.created = 0

\* C38 witness: two calls are under way at once on the one pool and a
\* third call has failed.
C38_Witness ==
  /\ pool.created = 1
  /\ calls[1].pc = "connected" /\ calls[2].pc = "getConnection"
  /\ calls[3].pc = "failed" /\ calls[3].pool = 1

\* C37: with enforceVerifiedEmail true, the middleware never passes a
\* request to the protected handler for an account whose e-mail address
\* is not verified.
C37_VerifiedEmailEnforced ==
  [][\A r \in Reqs :
       (enforceVerifiedEmail /\ reqs[r].pc # "handler" /\ reqs'[r].pc = "handler"
          /\ reqs'[r].userId \in Users /\ accounts[reqs'[r].userId].exists)
         => accounts[reqs'[r].userId].emailVerified
    ]_vars

\* C34: POST /signup is all-or-nothing: a step that commits a new account
\* row is a signup answered 201 that leaves both session cookies with the
\* client; a signup answered with an error commits no row.
C34_SignupAllOrNothing ==
  [][\A u \in Users :
       (~accounts[u].exists /\ accounts'[u].exists)
         => /\ \E password \in Passwords : SignupResult(u, password).status = 201
            /\ IssuedAs(jar'[u].access, TypeAccess)
            /\ IssuedAs(jar'[u].refresh, TypeRefresh)
    ]_vars

\* the decimal digits of n, without leading zeros
RECURSIVE Decimal(_)
Decimal(n) ==
  LET digit == <<"0", "1", "2", "3", "4", "5", "6", "7", "8", "9">>[(n % 10) + 1]
  IN IF n < 10 THEN <<digit>> ELSE Append(Decimal(n \div 10), digit)

RECURSIVE Power10(_)
Power10(k) == IF k = 0 THEN 1 ELSE 10 * Power10(k - 1)

Zeros(z) == [i \in 1..z |-> "0"]

SecondsPer(unit) ==
  CASE unit = "s" -> 1 [] unit = "m" -> 60 [] unit = "h" -> 3600 [] unit = "d" -> 86400

\* the texts "<n><unit>" of at most MaxTimeLen characters, n written with
\* any number of leading zeros, each with the seconds it stands for
WrittenTimes ==
  { [ text |-> Zeros(w[2]) \o Decimal(w[1]) \o <<w[3]>>,
      value |-> w[1] * SecondsPer(w[3]) ] :
      w \in { x \in (0..(Power10(MaxTimeLen - 1) - 1)) \X (0..(MaxTimeLen - 2))
                       \X {"s", "m", "h", "d"} :
                 Len(Decimal(x[1])) + x[2] + 1 <= MaxTimeLen } }

DotsOf(str) == {i \in 1..Len(str) : str[i] = Dot}

\* a segment is the base64url text of a JSON text of n bytes
ParsesAsJSON(seg, n) ==
  LET text == base64UrlDecode(seg)
  IN Len(text) = n /\ BadByte \notin {text[i] : i \in 1..Len(text)}

====
